---- MODULE Spec2Model ----
(***************************************************************************)
(* Model of the QuickJS shape-corruption classifier and struct decoder of  *)
(* the lldb debugging scripts (lib/quickjs/corruption.py, constants.py,    *)
(* types.py, lib/core/memory.py), of the object and shape trackers and the *)
(* corruption module of a debug session (modules/), and of the decoders    *)
(* and predicates the stand-alone scripts duplicate.                       *)
(*                                                                         *)
(* 64-bit values are written as four 16-bit limbs, most significant first: *)
(* <<w3, w2, w1, w0>> stands for w3*2^48 + w2*2^32 + w1*2^16 + w0.         *)
(***************************************************************************)
EXTENDS Integers, Sequences, FiniteSets, TLC

VARIABLES
    freed_shapes,        \* CorruptionDetector._freed_shapes
    known_good_shapes,   \* CorruptionDetector._known_good_shapes
    object_history,      \* CorruptionDetector._object_history: addr -> state
    cache,               \* MemoryCache.cache, in the order of the OrderedDict
    current_size,        \* MemoryCache.current_size
    objects,             \* ObjectTrackingModule.objects: addr -> ObjectHistory
    obj_alloc_count,     \* ObjectTrackingModule._alloc_count
    obj_free_count,      \* ObjectTrackingModule._free_count
    object_tracker_state, \* ObjectTrackingModule._state
    shapes,              \* ShapeTrackingModule.shapes: addr -> JSShape
    shape_events,        \* ShapeTrackingModule.events
    tracker_freed_shapes, \* ShapeTrackingModule._freed_shapes
    shape_alloc_count,   \* ShapeTrackingModule._alloc_count
    shape_free_count,    \* ShapeTrackingModule._free_count
    shape_tracker_state, \* ShapeTrackingModule._state
    corruption_count,    \* MemoryCorruptionModule.corruption_count
    stopped_on_corruption, \* MemoryCorruptionModule._stopped_on_corruption
    corruption_state,    \* MemoryCorruptionModule._state
    watchpoints,         \* WatchpointManager._watchpoints: id -> SBWatchpoint
    handlers,            \* WatchpointManager._handlers: id -> callable
    next_wp_id,          \* the debugger: the id of the last watchpoint made
    watched_objects,     \* WatchpointDebugModule.watched_objects
    watch_count,         \* WatchpointDebugModule._watch_count
    object_counter,      \* WatchpointDebugModule._object_counter
    watch_state,         \* WatchpointDebugModule._state
    breakpoints,         \* BreakpointManager._breakpoints: name -> SBBreakpoint
    bp_handlers,         \* BreakpointManager._handlers: name -> callable
    bp_configs,          \* BreakpointManager._configs: name -> config
    next_bp_id,          \* the debugger: the id of the last breakpoint made
    dict,                \* lldb_memory_debug: the dict given to the callbacks
    heap,                \* the target: the blocks malloc gave and free took
    tracked_objects,     \* lldb_root_cause.tracked_objects
    next_obj_id,         \* lldb_root_cause.next_obj_id
    stop_on_corruption,  \* lldb_root_cause.stop_on_corruption
    last                 \* the last call made: [op, args, result]

\* the CorruptionDetector (in a session: MemoryCorruptionModule.detector)
detectorVars == <<freed_shapes, known_good_shapes, object_history>>
\* the MemoryCache of the MemoryReader
cacheVars == <<cache, current_size>>
objectTrackerVars ==
    <<objects, obj_alloc_count, obj_free_count, object_tracker_state>>
shapeTrackerVars ==
    <<shapes, shape_events, tracker_freed_shapes, shape_alloc_count,
      shape_free_count, shape_tracker_state>>
corruptionModuleVars ==
    <<corruption_count, stopped_on_corruption, corruption_state>>

\* the WatchpointManager and the debugger's watchpoint ids
watchpointVars == <<watchpoints, handlers, next_wp_id>>
\* the WatchpointDebugModule
watchModuleVars ==
    <<watched_objects, watch_count, object_counter, watch_state>>
\* the BreakpointManager and the debugger's breakpoint ids
breakpointVars == <<breakpoints, bp_handlers, bp_configs, next_bp_id>>
\* the callbacks of lldb_memory_debug.py and the heap of the target
memoryDebugVars == <<dict, heap>>
\* the globals of lldb_root_cause.py
rootCauseVars == <<tracked_objects, next_obj_id, stop_on_corruption>>
\* the debugging tools outside the trackers
toolVars ==
    <<watchpointVars, watchModuleVars, breakpointVars, memoryDebugVars,
      rootCauseVars>>

\* what the methods of the CorruptionDetector and the pure functions leave
\* alone
nonDetectorVars ==
    <<cacheVars, objectTrackerVars, shapeTrackerVars, corruptionModuleVars,
      toolVars>>

vars == <<detectorVars, nonDetectorVars, last>>

----------------------------------------------------------------------------
(* Bounds of the model *)

\* every value 0 .. SmallMax is a candidate shape value
SmallMax == 17
\* time.time() returns one of 1 .. MaxTime
MaxTime == 1
\* MemoryCache.max_size, in bytes (the cache_size given to MemoryReader)
CacheSize == 128
\* the longest list of events a tracker keeps
MaxEvents == 3
\* the largest value of a counter of callbacks
MaxCount == 3

----------------------------------------------------------------------------
(* 64-bit arithmetic on limbs *)

U64(w3, w2, w1, w0) == <<w3, w2, w1, w0>>

\* a < b on 64-bit values
U64Lt(a, b) ==
    \E i \in 1..4 : a[i] < b[i] /\ \A j \in 1..(i - 1) : a[j] = b[j]

\* value & 0xF
LowNibble(v) == v[4] % 16

\* value & 0x7
LowThreeBits(v) == v[4] % 8

\* value >> 4, as limbs
ShiftRight4(v) ==
    <<v[1] \div 16,
      (v[1] % 16) * 4096 + (v[2] \div 16),
      (v[2] % 16) * 4096 + (v[3] \div 16),
      (v[3] % 16) * 4096 + (v[4] \div 16)>>

Zero64 == U64(0, 0, 0, 0)
AllOnes64 == U64(65535, 65535, 65535, 65535)

----------------------------------------------------------------------------
(* constants.py *)

MIN_VALID_PTR == U64(0, 0, 0, 4096)
MAX_VALID_PTR == U64(0, 65535, 65535, 65535)

SUSPICIOUS_PATTERNS ==
    { U64(0, 0, 49152, 0),              \* 0xc0000000
      U64(0, 0, 49152, 8),              \* 0xc0000008
      U64(65535, 65535, 65535, 65534),  \* 0xFFFFFFFFFFFFFFFE
      U64(65535, 65535, 65535, 65535),  \* 0xFFFFFFFFFFFFFFFF
      U64(0, 0, 0, 0),
      U64(0, 0, 0, 8),
      U64(0, 0, 0, 16) }

tag_names ==
    <<"JS_TAG_BOOL/UNDEFINED", "JS_TAG_NULL", "JS_TAG_EXCEPTION",
      "JS_TAG_CATCH_OFFSET", "JS_TAG_UNINITIALIZED", "JS_TAG_UNDEFINED",
      "JS_TAG_UNDEFINED2", "JS_TAG_FLOAT64">>

decode_js_tag(value) ==
    LET tag == LowNibble(value)
    IN  IF tag = 0 THEN <<"JS_TAG_INT">>
        ELSE IF tag <= 8 THEN <<tag_names[tag]>>
        ELSE <<"UNKNOWN_TAG_", tag>>

\* None, where the caller passes no integer
NoneArg == <<>>

is_valid_pointer(ptr) ==
    IF ptr = NoneArg THEN FALSE
    ELSE IF ptr = Zero64 THEN FALSE
    ELSE IF U64Lt(ptr, MIN_VALID_PTR) THEN FALSE
    ELSE IF U64Lt(MAX_VALID_PTR, ptr) THEN FALSE
    ELSE IF LowThreeBits(ptr) # 0 THEN FALSE
    ELSE TRUE

\* looks_like_tagged_value without its test of the high bits
looks_like_tagged_value_nohigh(value) ==
    IF LowNibble(value) = 0 THEN FALSE
    ELSE TRUE

looks_like_tagged_value(value) ==
    IF LowNibble(value) = 0 THEN FALSE
    ELSE IF ShiftRight4(value) # Zero64 THEN FALSE
    ELSE TRUE

----------------------------------------------------------------------------
(* corruption.py: reports *)

\* Python's None
PyNone == [type |-> "None"]

\* Optional[CorruptionReport] = None
NoReport == PyNone
NoRange == <<>>
NoRecommendation == "None"

CorruptionReport(type, obj_addr, shape, range, descr, severity, recomm) ==
    [type |-> type, object_addr |-> obj_addr, shape_value |-> shape,
     expected_range |-> range, description |-> descr,
     severity |-> severity, recommendation |-> recomm]

ValidRange == <<MIN_VALID_PTR, MAX_VALID_PTR>>

\* the first report of a sequence of tests, each of which returns a report
\* or falls through (NoReport): a chain of "if ...: return CorruptionReport"
FirstReport(tests) ==
    IF \E i \in 1..Len(tests) : tests[i] # NoReport
    THEN tests[CHOOSE i \in 1..Len(tests) :
                 /\ tests[i] # NoReport
                 /\ \A j \in 1..(i - 1) : tests[j] = NoReport]
    ELSE NoReport

\* if shape_ptr == 0
RuleNull(shape_ptr, obj_addr) ==
    IF shape_ptr = Zero64 THEN
        CorruptionReport("NULL_SHAPE", obj_addr, shape_ptr, ValidRange,
            <<"Shape pointer is NULL (object not initialized or freed)">>,
            "critical", "Check object initialization path")
    ELSE NoReport

\* the all-ones test left out
RuleSentinel_absent(shape_ptr, obj_addr) == NoReport

\* if shape_ptr == 0xFFFFFFFFFFFFFFFF
RuleSentinel(shape_ptr, obj_addr) ==
    IF shape_ptr = AllOnes64 THEN
        CorruptionReport("TAGGED_VALUE", obj_addr, shape_ptr, ValidRange,
            <<"Shape is -1 (looks like JS_TAG_OBJECT), memory corruption likely">>,
            "critical", "Check for buffer overflow or use-after-free")
    ELSE NoReport

\* if looks_like_tagged_value(shape_ptr)
RuleTagged(shape_ptr, obj_addr) ==
    IF looks_like_tagged_value(shape_ptr) THEN
        CorruptionReport("TAGGED_VALUE", obj_addr, shape_ptr, ValidRange,
            <<"Shape looks like tagged JSValue: ", decode_js_tag(shape_ptr)>>,
            "critical",
            "JSValue was written to shape field - check property assignment")
    ELSE NoReport

\* the small-value test left out
RuleSmall_absent(shape_ptr, obj_addr) == NoReport

\* if shape_ptr < MIN_VALID_PTR (the description renders shape_ptr in hex)
RuleSmall(shape_ptr, obj_addr) ==
    IF U64Lt(shape_ptr, MIN_VALID_PTR) THEN
        CorruptionReport("TAGGED_VALUE", obj_addr, shape_ptr, ValidRange,
            <<"Shape is small value (0x", shape_ptr, "), likely tagged pointer">>,
            "critical", NoRecommendation)
    ELSE NoReport

\* the upper bound taken one too high
RuleHigh_offbyone(shape_ptr, obj_addr) ==
    IF U64Lt(U64(1, 0, 0, 0), shape_ptr) THEN
        CorruptionReport("OUT_OF_RANGE", obj_addr, shape_ptr, ValidRange,
            <<"Shape pointer out of valid range (kernel space?)">>,
            "critical", NoRecommendation)
    ELSE NoReport

\* if shape_ptr > MAX_VALID_PTR
RuleHigh(shape_ptr, obj_addr) ==
    IF U64Lt(MAX_VALID_PTR, shape_ptr) THEN
        CorruptionReport("OUT_OF_RANGE", obj_addr, shape_ptr, ValidRange,
            <<"Shape pointer out of valid range (kernel space?)">>,
            "critical", NoRecommendation)
    ELSE NoReport

\* the report of a suspicious pattern without its expected range
RuleSuspicious_norange(shape_ptr, obj_addr) ==
    IF shape_ptr \in SUSPICIOUS_PATTERNS THEN
        CorruptionReport("INVALID_POINTER", obj_addr, shape_ptr, NoRange,
            <<"Shape matches known corruption pattern: 0x", shape_ptr>>,
            "critical", NoRecommendation)
    ELSE NoReport

\* if shape_ptr in SUSPICIOUS_PATTERNS
RuleSuspicious(shape_ptr, obj_addr) ==
    IF shape_ptr \in SUSPICIOUS_PATTERNS THEN
        CorruptionReport("INVALID_POINTER", obj_addr, shape_ptr, ValidRange,
            <<"Shape matches known corruption pattern: 0x", shape_ptr>>,
            "critical", NoRecommendation)
    ELSE NoReport

\* the freed-set test left out
RuleFreed_absent(shape_ptr, obj_addr) == NoReport

\* if shape_ptr in self._freed_shapes
RuleFreed(shape_ptr, obj_addr) ==
    IF shape_ptr \in freed_shapes THEN
        CorruptionReport("FREED_SHAPE", obj_addr, shape_ptr, NoRange,
            <<"Shape was freed but is still referenced (use-after-free)">>,
            "critical",
            "Set watchpoint on shape field to catch when it changes")
    ELSE NoReport

\* check_shape with the freed-set test made first
check_shape_freedfirst(shape_ptr, obj_addr) ==
    FirstReport(<<RuleFreed(shape_ptr, obj_addr),
                  RuleNull(shape_ptr, obj_addr),
                  RuleSentinel(shape_ptr, obj_addr),
                  RuleTagged(shape_ptr, obj_addr),
                  RuleSmall(shape_ptr, obj_addr),
                  RuleHigh(shape_ptr, obj_addr),
                  RuleSuspicious(shape_ptr, obj_addr)>>)

check_shape(shape_ptr, obj_addr) ==
    FirstReport(<<RuleNull(shape_ptr, obj_addr),
                  RuleSentinel(shape_ptr, obj_addr),
                  RuleTagged(shape_ptr, obj_addr),
                  RuleSmall(shape_ptr, obj_addr),
                  RuleHigh(shape_ptr, obj_addr),
                  RuleSuspicious(shape_ptr, obj_addr),
                  RuleFreed(shape_ptr, obj_addr)>>)

----------------------------------------------------------------------------
(* types.py: JSObject *)

JSObject(addr, class_id, flags, weakref_count, shape, prop) ==
    [addr |-> addr, class_id |-> class_id, flags |-> flags,
     weakref_count |-> weakref_count, shape |-> shape, prop |-> prop]

JSObject_is_valid_offbyone(obj) ==
    IF obj.class_id < 0 \/ obj.class_id > 255 THEN FALSE ELSE TRUE

JSObject_is_valid(obj) ==
    IF obj.class_id < 1 \/ obj.class_id > 255 THEN FALSE ELSE TRUE

check_object(obj) ==
    IF obj = PyNone THEN NoReport
    ELSE IF ~JSObject_is_valid(obj) THEN
        CorruptionReport("INVALID_POINTER", obj.addr, obj.shape,
            <<U64(0, 0, 0, 1), U64(0, 0, 0, 255)>>,
            <<"Object has invalid class_id: ", obj.class_id>>,
            "warning", NoRecommendation)
    ELSE check_shape(obj.shape, obj.addr)

\* what "report.type = ..." raises when report is None
AttributeError == [type |-> "raised", error |-> "AttributeError"]

\* check_shape_change without "if report:"
check_shape_change_unguarded(obj_addr, old_shape, new_shape) ==
    LET report == check_shape(new_shape, obj_addr)
    IN  IF report = NoReport THEN AttributeError
        ELSE [report EXCEPT
                !.type = "SHAPE_CHANGED_UNEXPECTEDLY",
                !.description = <<"Shape changed from 0x", old_shape,
                                  " to invalid: ">> \o report.description]

check_shape_change(obj_addr, old_shape, new_shape) ==
    LET report == check_shape(new_shape, obj_addr)
    IN  IF report # NoReport
        THEN [report EXCEPT
                !.type = "SHAPE_CHANGED_UNEXPECTEDLY",
                !.description = <<"Shape changed from 0x", old_shape,
                                  " to invalid: ">> \o report.description]
        ELSE NoReport

----------------------------------------------------------------------------
(* constants.py: structure layouts *)

JSObjectOffset ==
    [CLASS_ID |-> 0, FLAGS |-> 2, PADDING |-> 3, WEAKREF_COUNT |-> 4,
     SHAPE |-> 8, PROP |-> 16, SIZE |-> 24]

\* the layout with the two counts exchanged
JSShapeOffset_exchanged ==
    [IS_HASHED |-> 0, HASH |-> 4, PROP_HASH_MASK |-> 8, PROP_SIZE |-> 16,
     PROP_COUNT |-> 12, DELETED_PROP_COUNT |-> 20, SHAPE_HASH_NEXT |-> 24,
     PROTO |-> 32, SIZE |-> 40]
JSShapeOffset ==
    [IS_HASHED |-> 0, HASH |-> 4, PROP_HASH_MASK |-> 8, PROP_SIZE |-> 12,
     PROP_COUNT |-> 16, DELETED_PROP_COUNT |-> 20, SHAPE_HASH_NEXT |-> 24,
     PROTO |-> 32, SIZE |-> 40]

----------------------------------------------------------------------------
(* struct.unpack_from on a byte sequence b (1-based), at a 0-based offset *)

\* bytes objects; Optional[bytes] is PyNone or Bytes(b)
Bytes(b) == [type |-> "bytes", b |-> b]

\* truth value of an Optional[bytes]: None and b'' are false
Truthy(data) == data # PyNone /\ Len(data.b) > 0

\* '<B'
unpack_B(b, off) == b[off + 1]

\* '<H'
unpack_H(b, off) == b[off + 1] + 256 * b[off + 2]

\* '<I', as two 16-bit limbs <<high, low>>
unpack_I(b, off) == <<unpack_H(b, off + 2), unpack_H(b, off)>>

\* '<i', two's complement
unpack_i(b, off) ==
    LET hi == unpack_H(b, off + 2)
        lo == unpack_H(b, off)
    IN  IF hi >= 32768 THEN (hi - 65536) * 65536 + lo ELSE hi * 65536 + lo

\* '<Q', as four 16-bit limbs
unpack_Q(b, off) ==
    <<unpack_H(b, off + 6), unpack_H(b, off + 4),
      unpack_H(b, off + 2), unpack_H(b, off)>>

\* struct.error / IndexError raised by a read past the end of the buffer
BufferError == [type |-> "raised"]

----------------------------------------------------------------------------
(* lib/core/memory.py: MemoryReader.read with use_cache=False *)

\* process.ReadMemory(addr, size, error): the error state and the data
ReadResult(success, data) == [success |-> success, data |-> data]

MemoryReader_read_uncached(addr, size, outcome) ==
    IF addr = Zero64 \/ size = 0 THEN PyNone
    ELSE IF outcome.success /\ Truthy(outcome.data) THEN outcome.data
    ELSE PyNone

----------------------------------------------------------------------------
(* types.py: decoders *)

\* the fields of a JSObject read from the buffer
JSObject_unpack(addr, b) ==
    IF Len(b) < 24 THEN BufferError
    ELSE JSObject(addr,
                  unpack_H(b, JSObjectOffset.CLASS_ID),
                  unpack_B(b, JSObjectOffset.FLAGS),
                  unpack_I(b, JSObjectOffset.WEAKREF_COUNT),
                  unpack_Q(b, JSObjectOffset.SHAPE),
                  unpack_Q(b, JSObjectOffset.PROP))

\* from_memory without the length test
JSObject_from_memory_nolength(addr, outcome) ==
    IF U64Lt(addr, MIN_VALID_PTR) THEN PyNone
    ELSE LET data == MemoryReader_read_uncached(addr, JSObjectOffset.SIZE,
                                                outcome)
         IN  IF ~Truthy(data) THEN PyNone
             ELSE JSObject_unpack(addr, data.b)

JSObject_from_memory(addr, outcome) ==
    IF U64Lt(addr, MIN_VALID_PTR) THEN PyNone
    ELSE LET data == MemoryReader_read_uncached(addr, JSObjectOffset.SIZE,
                                                outcome)
         IN  IF ~Truthy(data) \/ Len(data.b) < JSObjectOffset.SIZE
             THEN PyNone
             ELSE JSObject_unpack(addr, data.b)

JSShape(addr, is_hashed, hash_val, prop_hash_mask, prop_size, prop_count, deleted_prop_count, shape_hash_next, proto) ==
    [addr |-> addr, is_hashed |-> is_hashed, hash_val |-> hash_val,
     prop_hash_mask |-> prop_hash_mask, prop_size |-> prop_size,
     prop_count |-> prop_count, deleted_prop_count |-> deleted_prop_count,
     shape_hash_next |-> shape_hash_next, proto |-> proto]

\* the fields of a JSShape read from the buffer
JSShape_unpack(addr, b) ==
    IF Len(b) < 40 THEN BufferError
    ELSE JSShape(addr,
                 b[JSShapeOffset.IS_HASHED + 1] # 0,
                 unpack_I(b, JSShapeOffset.HASH),
                 unpack_I(b, JSShapeOffset.PROP_HASH_MASK),
                 unpack_i(b, JSShapeOffset.PROP_SIZE),
                 unpack_i(b, JSShapeOffset.PROP_COUNT),
                 unpack_i(b, JSShapeOffset.DELETED_PROP_COUNT),
                 unpack_Q(b, JSShapeOffset.SHAPE_HASH_NEXT),
                 unpack_Q(b, JSShapeOffset.PROTO))

\* from_memory without the test of the address
JSShape_from_memory_anyaddr(addr, outcome) ==
    LET data == MemoryReader_read_uncached(addr, JSShapeOffset.SIZE, outcome)
    IN  IF ~Truthy(data) \/ Len(data.b) < JSShapeOffset.SIZE
        THEN PyNone
        ELSE JSShape_unpack(addr, data.b)
JSShape_from_memory(addr, outcome) ==
    IF ~is_valid_pointer(addr) THEN PyNone
    ELSE LET data == MemoryReader_read_uncached(addr, JSShapeOffset.SIZE,
                                                outcome)
         IN  IF ~Truthy(data) \/ Len(data.b) < JSShapeOffset.SIZE
             THEN PyNone
             ELSE JSShape_unpack(addr, data.b)

----------------------------------------------------------------------------
(* types.py: JSShape.is_valid; prop_hash_mask is an unsigned 32-bit value
   <<hi, lo>>, and prop_hash_mask + 1 may need a 33rd bit *)

RECURSIVE BitAnd(_, _)
BitAnd(a, b) ==
    IF a = 0 \/ b = 0 THEN 0
    ELSE (a % 2) * (b % 2) + 2 * BitAnd(a \div 2, b \div 2)

\* v + 1 as three limbs <<carry, hi, lo>>
PlusOne(v) ==
    LET lo == v[2] + 1
        hi == v[1] + lo \div 65536
    IN  <<hi \div 65536, hi % 65536, lo % 65536>>

\* v & (v + 1) is not zero
AndPlusOneNonZero(v) ==
    \/ BitAnd(v[1], PlusOne(v)[2]) # 0
    \/ BitAnd(v[2], PlusOne(v)[3]) # 0

\* is_valid without the test of the hash mask
JSShape_is_valid_nomask(shape) ==
    IF shape.prop_count < 0 \/ shape.prop_size < 0 THEN FALSE
    ELSE IF shape.prop_count > shape.prop_size THEN FALSE
    ELSE TRUE

JSShape_is_valid(shape) ==
    IF shape.prop_count < 0 \/ shape.prop_size < 0 THEN FALSE
    ELSE IF shape.prop_count > shape.prop_size THEN FALSE
    ELSE IF shape.prop_hash_mask # <<0, 0>>
            /\ AndPlusOneNonZero(shape.prop_hash_mask) THEN FALSE
    ELSE TRUE

----------------------------------------------------------------------------
(* lldb_comprehensive_debug.py: JSObjectTracker.read_object *)

read_object(addr, outcome) ==
    IF ~outcome.success \/ Len(outcome.data.b) < 24 THEN PyNone
    ELSE LET b == outcome.data.b
         IN  [addr |-> addr,
              class_id |-> unpack_H(b, 0),
              flags |-> IF Len(b) > 2 THEN b[3] ELSE 0,
              weakref_count |-> unpack_I(b, 4),
              shape |-> unpack_Q(b, 8),
              prop |-> unpack_Q(b, 16)]

----------------------------------------------------------------------------
(* types.py: JSObject.has_corrupted_shape, get_shape; inspector.py:
   ObjectInspector.inspect_object *)

JSObject_has_corrupted_shape(obj) ==
    IF obj.shape = Zero64 THEN TRUE
    ELSE IF obj.shape = AllOnes64 THEN TRUE
    ELSE IF U64Lt(obj.shape, MIN_VALID_PTR) THEN TRUE
    ELSE IF U64Lt(MAX_VALID_PTR, obj.shape) THEN TRUE
    ELSE FALSE

JSObject_get_shape(obj, outcome) ==
    IF JSObject_has_corrupted_shape(obj) THEN PyNone
    ELSE JSShape_from_memory(obj.shape, outcome)

\* the fields of an InspectionResult; backtrace keeps its default None
InspectionResult(object, shape, corruption, memory_context, nearby_objects) ==
    [object |-> object, shape |-> shape, corruption |-> corruption,
     memory_context |-> memory_context, nearby_objects |-> nearby_objects,
     backtrace |-> PyNone]

\* inspect_object(addr, get_context=False): obj_outcome is the read of the
\* object header, shape_outcome the read at the address in its shape field;
\* the detector is the inspector's own (self.corruption)
inspect_object(addr, obj_outcome, shape_outcome) ==
    LET obj == JSObject_from_memory(addr, obj_outcome)
    IN  IF obj = PyNone THEN PyNone
        ELSE LET shape == IF ~JSObject_has_corrupted_shape(obj)
                          THEN JSObject_get_shape(obj, shape_outcome)
                          ELSE PyNone
                 corruption == check_object(obj)
             IN  InspectionResult(obj, shape, corruption, <<>>, <<>>)

----------------------------------------------------------------------------
(* lib/core/memory.py: MemoryCache.  The cache is the sequence of the
   entries [addr, data] of the OrderedDict, oldest insertion first. *)

ChunkSize == 64

Min(a, b) == IF a < b THEN a ELSE b

\* addr + k for a small k >= 0 (Python integers do not wrap)
U64AddSmall(v, k) ==
    LET s0 == v[4] + k
        s1 == v[3] + s0 \div 65536
        s2 == v[2] + s1 \div 65536
    IN  <<v[1] + s2 \div 65536, s2 % 65536, s1 % 65536, s0 % 65536>>

\* chunk_addr in self.cache
CacheHas(c, chunk_addr) == \E i \in 1..Len(c) : c[i].addr = chunk_addr

\* self.cache[chunk_addr]
CacheAt(c, chunk_addr) ==
    c[CHOOSE i \in 1..Len(c) : c[i].addr = chunk_addr].data

\* the number of iterations of range(0, size, 64)
ChunkCount(size) == (size + ChunkSize - 1) \div ChunkSize

\* result.extend(self.cache[chunk_addr]) for chunks k .. n - 1
RECURSIVE ExtendFrom(_, _, _, _)
ExtendFrom(c, addr, k, n) ==
    IF k >= n THEN <<>>
    ELSE CacheAt(c, U64AddSmall(addr, k * ChunkSize))
             \o ExtendFrom(c, addr, k + 1, n)

MemoryCache_get(c, addr, size) ==
    IF \E k \in 0..(ChunkCount(size) - 1) :
           ~CacheHas(c, U64AddSmall(addr, k * ChunkSize))
    THEN PyNone
    ELSE LET result == ExtendFrom(c, addr, 0, ChunkCount(size))
         IN  Bytes(SubSeq(result, 1, Min(size, Len(result))))

\* while self.current_size > self.max_size and self.cache: drop the oldest
RECURSIVE Evict(_)
Evict(st) ==
    IF st.current_size > CacheSize /\ st.cache # <<>>
    THEN Evict([cache |-> Tail(st.cache),
                current_size |->
                    st.current_size - Len(Head(st.cache).data)])
    ELSE st

\* self.cache[chunk_addr] = chunk: an existing key keeps its place
CacheStore(c, chunk_addr, chunk) ==
    IF CacheHas(c, chunk_addr)
    THEN [i \in 1..Len(c) |->
            IF c[i].addr = chunk_addr
            THEN [addr |-> chunk_addr, data |-> chunk] ELSE c[i]]
    ELSE Append(c, [addr |-> chunk_addr, data |-> chunk])

\* the body of put's loop for the chunks k, k + 1, ... of data
RECURSIVE PutFrom(_, _, _, _)
PutFrom(st, addr, data, k) ==
    IF k * ChunkSize >= Len(data) THEN st
    ELSE LET chunk_addr == U64AddSmall(addr, k * ChunkSize)
             chunk == SubSeq(data, k * ChunkSize + 1,
                             Min(k * ChunkSize + ChunkSize, Len(data)))
             size1 == IF CacheHas(st.cache, chunk_addr)
                      THEN st.current_size
                               - Len(CacheAt(st.cache, chunk_addr))
                      ELSE st.current_size
         IN  PutFrom(Evict([cache |-> CacheStore(st.cache, chunk_addr, chunk),
                            current_size |-> size1 + Len(chunk)]),
                     addr, data, k + 1)

MemoryCache_put(c, size, addr, data) ==
    PutFrom([cache |-> c, current_size |-> size], addr, data, 0)

----------------------------------------------------------------------------
(* lib/core/memory.py: MemoryReader.read with the cache.  The result is the
   value returned and the cache it leaves. *)

MemoryReader_read(c, size_now, addr, size, use_cache, outcome) ==
    LET same == [cache |-> c, current_size |-> size_now]
        cached == IF use_cache THEN MemoryCache_get(c, addr, size)
                  ELSE PyNone
    IN  IF addr = Zero64 \/ size = 0
        THEN [value |-> PyNone, state |-> same]
        ELSE IF use_cache /\ cached # PyNone
        THEN [value |-> cached, state |-> same]
        ELSE IF outcome.success /\ Truthy(outcome.data)
        THEN [value |-> outcome.data,
              state |-> IF use_cache
                        THEN MemoryCache_put(c, size_now, addr,
                                             outcome.data.b)
                        ELSE same]
        ELSE [value |-> PyNone, state |-> same]

----------------------------------------------------------------------------
(* lldb_shape_investigator.py: ShapeInvestigator._analyze_object, the header
   it unpacks with the format '<HBBIIQQ' (28 bytes) from a read of 24 *)

HeaderFormatSize == 2 + 1 + 1 + 4 + 4 + 8 + 8

\* header[4], a 4-byte field, as a 64-bit value
Widen32(v) == <<0, 0, v[1], v[2]>>

analyze_object(addr, outcome) ==
    IF ~outcome.success \/ ~Truthy(outcome.data) THEN PyNone
    ELSE LET b == outcome.data.b
         IN  IF Len(b) # HeaderFormatSize THEN BufferError
             ELSE [class_id |-> unpack_H(b, 0),
                   flags |-> unpack_B(b, 2),
                   padding |-> unpack_B(b, 3),
                   weakref_count |-> unpack_I(b, 4),
                   shape |-> Widen32(unpack_I(b, 8)),
                   prop |-> unpack_Q(b, 12)]

----------------------------------------------------------------------------
(* lldb_root_cause.py: is_valid_obj_addr *)

\* is_valid_obj_addr with the upper limit 0x00007F0000000000
is_valid_obj_addr_usermax(addr) ==
    IF addr = NoneArg \/ addr = Zero64 THEN FALSE
    ELSE IF U64Lt(addr, U64(0, 0, 0, 4096)) THEN FALSE
    ELSE IF U64Lt(U64(0, 32512, 0, 0), addr) THEN FALSE
    ELSE IF LowThreeBits(addr) # 0 THEN FALSE
    ELSE TRUE

is_valid_obj_addr(addr) ==
    IF addr = NoneArg \/ addr = Zero64 THEN FALSE
    ELSE IF U64Lt(addr, U64(0, 0, 0, 4096)) THEN FALSE
    ELSE IF U64Lt(U64(0, 65535, 65535, 65535), addr) THEN FALSE
    ELSE IF LowThreeBits(addr) # 0 THEN FALSE
    ELSE TRUE

----------------------------------------------------------------------------
(* lldb_deep_shape_debug.py: is_valid_pointer *)

deep_shape_is_valid_pointer(ptr) ==
    IF ptr = NoneArg THEN FALSE
    ELSE IF LowThreeBits(ptr) # 0 THEN FALSE
    ELSE IF U64Lt(U64(0, 65535, 65535, 65535), ptr) THEN FALSE
    ELSE IF U64Lt(ptr, U64(0, 0, 0, 4096)) THEN FALSE
    ELSE TRUE

----------------------------------------------------------------------------
(* Inputs *)

Values ==
    { U64(0, 0, 0, k) : k \in 0..SmallMax } \cup
    { U64(0, 0, 0, 4095),     U64(0, 0, 0, 4096),
      U64(0, 0, 0, 8192),     U64(0, 0, 0, 8193),
      U64(0, 0, 49152, 0),    U64(0, 0, 49152, 8),
      U64(0, 65535, 65535, 65535),                    \* MAX_VALID_PTR
      U64(1, 0, 0, 0),        U64(1, 0, 0, 1),        \* 0x0001000000000001
      U64(65535, 65535, 65535, 65534),
      AllOnes64 }

\* addresses passed to register_freed_shape / register_good_shape
RegAddrs ==
    { Zero64, U64(0, 0, 0, 8192), U64(0, 0, 49152, 0),
      U64(1, 0, 0, 1), AllOnes64 }

\* obj_addr of a direct check_shape call (0 is the default argument)
ObjAddrs == { Zero64 }

ClassIds == {0, 1, 255, 256, 300}

\* shape fields of the objects handed to check_object
ObjectShapes == RegAddrs \cup { U64(0, 0, 0, 1), U64(0, 0, 0, 8193) }

Objects ==
    { JSObject(U64(0, 0, 0, 12288), c, 0, <<0, 0>>, s, Zero64) :
        c \in ClassIds, s \in ObjectShapes }

\* objects whose state is recorded
RecordedObjects ==
    { JSObject(U64(0, 0, 0, 12288), 1, 0, <<0, 0>>, s, Zero64) :
        s \in {Zero64, U64(0, 0, 0, 8192)} }

Times == 1..MaxTime

----------------------------------------------------------------------------
(* CorruptionDetector *)

Init ==
    /\ freed_shapes = {}
    /\ known_good_shapes = {}
    /\ object_history = <<>>
    /\ cache = <<>>
    /\ current_size = 0
    /\ objects = <<>>
    /\ obj_alloc_count = 0
    /\ obj_free_count = 0
    /\ object_tracker_state =
         [objects_tracked |-> 0, alloc_count |-> 0, free_count |-> 0]
    /\ shapes = <<>>
    /\ shape_events = <<>>
    /\ tracker_freed_shapes = {}
    /\ shape_alloc_count = 0
    /\ shape_free_count = 0
    /\ shape_tracker_state =
         [shapes_tracked |-> 0, alloc_count |-> 0, free_count |-> 0,
          freed_shapes |-> 0]
    /\ corruption_count = 0
    /\ stopped_on_corruption = FALSE
    /\ corruption_state =
         [corruption_count |-> 0, last_corruption |-> PyNone,
          stopped |-> FALSE]
    /\ watchpoints = <<>>
    /\ handlers = <<>>
    /\ next_wp_id = 0
    /\ watched_objects = <<>>
    /\ watch_count = 0
    /\ object_counter = 0
    /\ watch_state =
         [watchpoints_active |-> 0, objects_watched |-> 0,
          corruption_caught |-> 0]
    /\ breakpoints = <<>>
    /\ bp_handlers = <<>>
    /\ bp_configs = <<>>
    /\ next_bp_id = 0
    /\ dict = <<>>
    /\ heap = [blocks |-> <<>>, in_malloc |-> FALSE]
    /\ tracked_objects = <<>>
    /\ next_obj_id = 0
    /\ stop_on_corruption = TRUE
    /\ last = [op |-> "init", args |-> <<>>, result |-> NoReport]

\* a classification that also remembers the value it rejected
CheckShapeRemembering(shape_ptr, obj_addr) ==
    /\ last' = [op |-> "check_shape", args |-> <<shape_ptr, obj_addr>>,
                result |-> check_shape(shape_ptr, obj_addr)]
    /\ freed_shapes' = freed_shapes \cup {shape_ptr}
    /\ UNCHANGED <<known_good_shapes, object_history>>
    /\ UNCHANGED nonDetectorVars

CheckShape(shape_ptr, obj_addr) ==
    /\ last' = [op |-> "check_shape", args |-> <<shape_ptr, obj_addr>>,
                result |-> check_shape(shape_ptr, obj_addr)]
    /\ UNCHANGED <<freed_shapes, known_good_shapes, object_history>>
    /\ UNCHANGED nonDetectorVars

CheckObject(obj) ==
    /\ last' = [op |-> "check_object", args |-> <<obj>>,
                result |-> check_object(obj)]
    /\ UNCHANGED <<freed_shapes, known_good_shapes, object_history>>
    /\ UNCHANGED nonDetectorVars

\* the shape an object had before the change
OldShapes == { U64(0, 0, 0, 8192), U64(0, 0, 49152, 0) }

\* a check that classifies the shape the object had, not the one it has
CheckShapeChange_oldclassified(obj_addr, old_shape, new_shape) ==
    /\ last' = [op |-> "check_shape_change",
                args |-> <<obj_addr, old_shape, new_shape>>,
                result |-> check_shape_change(obj_addr, new_shape, old_shape)]
    /\ UNCHANGED <<freed_shapes, known_good_shapes, object_history>>
    /\ UNCHANGED nonDetectorVars
CheckShapeChange(obj_addr, old_shape, new_shape) ==
    /\ last' = [op |-> "check_shape_change",
                args |-> <<obj_addr, old_shape, new_shape>>,
                result |-> check_shape_change(obj_addr, old_shape, new_shape)]
    /\ UNCHANGED <<freed_shapes, known_good_shapes, object_history>>
    /\ UNCHANGED nonDetectorVars

RegisterFreedShape(shape_addr) ==
    /\ freed_shapes' = freed_shapes \cup {shape_addr}
    /\ known_good_shapes' =
         IF shape_addr \in known_good_shapes
         THEN known_good_shapes \ {shape_addr}
         ELSE known_good_shapes
    /\ last' = [op |-> "register_freed_shape", args |-> <<shape_addr>>,
                result |-> NoReport]
    /\ UNCHANGED object_history
    /\ UNCHANGED nonDetectorVars

\* register_good_shape that leaves the address in the freed set
RegisterGoodShape_keeping(shape_addr) ==
    /\ known_good_shapes' = known_good_shapes \cup {shape_addr}
    /\ freed_shapes' = freed_shapes
    /\ last' = [op |-> "register_good_shape", args |-> <<shape_addr>>,
                result |-> NoReport]
    /\ UNCHANGED object_history
    /\ UNCHANGED nonDetectorVars

RegisterGoodShape(shape_addr) ==
    /\ known_good_shapes' = known_good_shapes \cup {shape_addr}
    /\ freed_shapes' =
         IF shape_addr \in freed_shapes
         THEN freed_shapes \ {shape_addr}
         ELSE freed_shapes
    /\ last' = [op |-> "register_good_shape", args |-> <<shape_addr>>,
                result |-> NoReport]
    /\ UNCHANGED object_history
    /\ UNCHANGED nonDetectorVars

\* CorruptionDetector.is_shape_freed
is_shape_freed(freed, shape_addr) == shape_addr \in freed

IsShapeFreed(shape_addr) ==
    /\ last' = [op |-> "is_shape_freed", args |-> <<shape_addr>>,
                result |-> is_shape_freed(freed_shapes, shape_addr)]
    /\ UNCHANGED <<freed_shapes, known_good_shapes, object_history>>
    /\ UNCHANGED nonDetectorVars

\* dict assignment self._object_history[obj.addr] = {...}
DictSet(d, k, v) ==
    [x \in (DOMAIN d) \cup {k} |-> IF x = k THEN v ELSE d[x]]

RecordObjectState(obj, now) ==
    /\ object_history' =
         DictSet(object_history, obj.addr,
                 [shape |-> obj.shape, timestamp |-> now,
                  class_id |-> obj.class_id])
    /\ last' = [op |-> "record_object_state", args |-> <<obj>>,
                result |-> NoReport]
    /\ UNCHANGED <<freed_shapes, known_good_shapes>>
    /\ UNCHANGED nonDetectorVars

Next ==
    \/ \E v \in Values, a \in ObjAddrs : CheckShape(v, a)
    \/ \E obj \in Objects : CheckObject(obj)
    \/ \E old \in OldShapes, new \in RegAddrs :
         CheckShapeChange(U64(0, 0, 0, 12288), old, new)
    \/ \E a \in RegAddrs : RegisterFreedShape(a)
    \/ \E a \in RegAddrs : RegisterGoodShape(a)
    \/ \E a \in RegAddrs : IsShapeFreed(a)
    \/ \E obj \in RecordedObjects, now \in Times : RecordObjectState(obj, now)

Spec == Init /\ [][Next]_vars

----------------------------------------------------------------------------
(* The decoders, applied to the outcomes of a read of the target's memory *)

\* byte i (0-based) of the buffer is seed + i * step (mod 256)
\* the 24 bytes of an object header in the target, little-endian
Bytes16(x) == <<x % 256, x \div 256>>
Bytes64(v) == Bytes16(v[4]) \o Bytes16(v[3]) \o Bytes16(v[2]) \o Bytes16(v[1])
ObjectHeader(class_id, shape) ==
    Bytes16(class_id) \o <<0, 0>> \o <<0, 0, 0, 0>> \o Bytes64(shape)
        \o Bytes64(Zero64)

Buffer(n, seed, step) == [i \in 1..n |-> (seed + (i - 1) * step) % 256]

Patterns == { <<0, 0>>, <<1, 1>>, <<255, 0>>, <<200, 37>> }

\* what process.ReadMemory(addr, size, error) can give: an error and no
\* data, or at most size bytes
ReadOutcomes(size) ==
    { ReadResult(FALSE, PyNone) } \cup
    { ReadResult(TRUE, Bytes(Buffer(n, p[1], p[2]))) :
        n \in 0..size, p \in Patterns }

\* addresses the decoders are given
DecodeAddrs ==
    { Zero64, U64(0, 0, 0, 4095), U64(0, 0, 0, 12288), U64(0, 0, 0, 12289) }

ObjectFromMemory(addr, outcome) ==
    /\ last' = [op |-> "JSObject.from_memory", args |-> <<addr, outcome>>,
                result |-> JSObject_from_memory(addr, outcome)]
    /\ UNCHANGED <<freed_shapes, known_good_shapes, object_history>>
    /\ UNCHANGED nonDetectorVars

ShapeFromMemory(addr, outcome) ==
    /\ last' = [op |-> "JSShape.from_memory", args |-> <<addr, outcome>>,
                result |-> JSShape_from_memory(addr, outcome)]
    /\ UNCHANGED <<freed_shapes, known_good_shapes, object_history>>
    /\ UNCHANGED nonDetectorVars

ReadObject(addr, outcome) ==
    /\ last' = [op |-> "read_object", args |-> <<addr, outcome>>,
                result |-> read_object(addr, outcome)]
    /\ UNCHANGED <<freed_shapes, known_good_shapes, object_history>>
    /\ UNCHANGED nonDetectorVars

AnalyzeObject(addr, outcome) ==
    /\ last' = [op |-> "_analyze_object", args |-> <<addr, outcome>>,
                result |-> analyze_object(addr, outcome)]
    /\ UNCHANGED <<freed_shapes, known_good_shapes, object_history>>
    /\ UNCHANGED nonDetectorVars
\* counts and hash masks of the shapes whose validity is asked
ShapeCounts == { -2147483647 - 1, -1, 0, 1, 2, 2147483647 }

ShapeMasks ==
    { <<0, 0>>, <<0, 1>>, <<0, 2>>, <<0, 3>>, <<0, 6>>, <<0, 65535>>,
      <<1, 0>>, <<1, 65535>>, <<2, 65535>>, <<32768, 0>>,
      <<65535, 65534>>, <<65535, 65535>> }

Shapes ==
    { JSShape(U64(0, 0, 0, 8192), FALSE, <<0, 0>>, m, s, c, 0, Zero64, Zero64) :
        m \in ShapeMasks, s \in ShapeCounts, c \in ShapeCounts }

ShapeIsValid(shape) ==
    /\ last' = [op |-> "JSShape.is_valid", args |-> <<shape>>,
                result |-> JSShape_is_valid(shape)]
    /\ UNCHANGED <<freed_shapes, known_good_shapes, object_history>>
    /\ UNCHANGED nonDetectorVars
\* values given to the pointer-validity predicates
PointerInputs ==
    { NoneArg, Zero64, U64(0, 0, 0, 8), U64(0, 0, 0, 4088),
      U64(0, 0, 0, 4095), U64(0, 0, 0, 4096), U64(0, 0, 0, 4097),
      U64(0, 0, 0, 4100), U64(0, 0, 0, 4104), U64(0, 0, 1, 0),
      U64(0, 32512, 0, 0), U64(0, 65535, 65535, 65528),
      U64(0, 65535, 65535, 65535), U64(1, 0, 0, 0),
      U64(65535, 65535, 65535, 65528), AllOnes64 }

IsValidPointer(v) ==
    /\ last' = [op |-> "is_valid_pointer", args |-> <<v>>,
                result |-> is_valid_pointer(v)]
    /\ UNCHANGED <<freed_shapes, known_good_shapes, object_history>>
    /\ UNCHANGED nonDetectorVars

IsValidObjAddr(v) ==
    /\ last' = [op |-> "is_valid_obj_addr", args |-> <<v>>,
                result |-> is_valid_obj_addr(v)]
    /\ UNCHANGED <<freed_shapes, known_good_shapes, object_history>>
    /\ UNCHANGED nonDetectorVars

DeepShapeIsValidPointer(v) ==
    /\ last' = [op |-> "deep_shape.is_valid_pointer", args |-> <<v>>,
                result |-> deep_shape_is_valid_pointer(v)]
    /\ UNCHANGED <<freed_shapes, known_good_shapes, object_history>>
    /\ UNCHANGED nonDetectorVars
\* shape fields of the objects that are inspected
InspectedShapes ==
    { Zero64, U64(0, 0, 0, 8), U64(0, 0, 0, 8192), U64(0, 0, 0, 8193),
      U64(0, 0, 49152, 0), U64(0, 0, 49152, 8), MAX_VALID_PTR,
      U64(1, 0, 0, 0), AllOnes64 }

InspectedObjects ==
    { JSObject(U64(0, 0, 0, 12288), c, 0, <<0, 0>>, s, Zero64) :
        c \in {0, 1}, s \in InspectedShapes }

\* reads of the header of an inspected object
InspectedHeaderReads ==
    { ReadResult(FALSE, PyNone) } \cup
    { ReadResult(TRUE, Bytes(ObjectHeader(c, s))) :
        c \in {0, 1}, s \in InspectedShapes }

\* reads of the shape an inspected object refers to
InspectedShapeReads ==
    { ReadResult(FALSE, PyNone),
      ReadResult(TRUE, Bytes(Buffer(JSShapeOffset.SIZE, 1, 1))) }

HasCorruptedShape(obj) ==
    /\ last' = [op |-> "has_corrupted_shape", args |-> <<obj>>,
                result |-> JSObject_has_corrupted_shape(obj)]
    /\ UNCHANGED <<freed_shapes, known_good_shapes, object_history>>
    /\ UNCHANGED nonDetectorVars

InspectObject(addr, obj_outcome, shape_outcome) ==
    /\ last' = [op |-> "inspect_object",
                args |-> <<addr, obj_outcome, shape_outcome>>,
                result |-> inspect_object(addr, obj_outcome, shape_outcome)]
    /\ UNCHANGED <<freed_shapes, known_good_shapes, object_history>>
    /\ UNCHANGED nonDetectorVars

NextDecoder ==
    \/ \E a \in DecodeAddrs, o \in ReadOutcomes(JSObjectOffset.SIZE) :
         ObjectFromMemory(a, o)
    \/ \E a \in DecodeAddrs, o \in ReadOutcomes(JSShapeOffset.SIZE) :
         ShapeFromMemory(a, o)
    \/ \E o \in ReadOutcomes(64) : ReadObject(U64(0, 0, 0, 12288), o)
    \/ \E o \in ReadOutcomes(24) : AnalyzeObject(U64(0, 0, 0, 12288), o)
    \/ \E s \in Shapes : ShapeIsValid(s)
    \/ \E v \in PointerInputs : IsValidPointer(v)
    \/ \E v \in PointerInputs : IsValidObjAddr(v)
    \/ \E v \in PointerInputs : DeepShapeIsValidPointer(v)
    \/ \E obj \in InspectedObjects : HasCorruptedShape(obj)
    \/ \E o \in InspectedHeaderReads, so \in InspectedShapeReads :
         InspectObject(U64(0, 0, 0, 12288), o, so)

SpecDecoder == Init /\ [][NextDecoder]_vars

----------------------------------------------------------------------------
(* The MemoryReader and its cache, reading a target whose memory holds at
   every address the low byte of the address *)

TargetByte(v) == v[4] % 256

\* the n bytes of the target at addr
TargetBytes(addr, n) == [i \in 1..n |-> TargetByte(U64AddSmall(addr, i - 1))]

\* what process.ReadMemory(addr, size, error) gives: an error, all of the
\* range, or the first half of it
ProcessReads(addr, size) ==
    { ReadResult(FALSE, PyNone) } \cup
    { ReadResult(TRUE, Bytes(TargetBytes(addr, n))) :
        n \in {size, size \div 2} }

CacheAddrs == { Zero64, U64(0, 0, 0, 4096), U64(0, 0, 0, 4160) }

ReadSizes == { 0, 8, 16, 128 }

Read(addr, size, use_cache, outcome) ==
    LET r == MemoryReader_read(cache, current_size, addr, size, use_cache,
                               outcome)
    IN  /\ cache' = r.state.cache
        /\ current_size' = r.state.current_size
        /\ last' = [op |-> "read",
                    args |-> <<addr, size, use_cache, outcome>>,
                    result |-> r.value]
        /\ UNCHANGED <<detectorVars, objectTrackerVars, shapeTrackerVars,
                       corruptionModuleVars, toolVars>>

NextCache ==
    \E addr \in CacheAddrs, size \in ReadSizes, use_cache \in BOOLEAN :
        \E outcome \in ProcessReads(addr, size) :
            Read(addr, size, use_cache, outcome)

SpecCache == Init /\ [][NextCache]_vars

----------------------------------------------------------------------------
(* The MemoryCache used on its own: get, put and invalidate *)

\* invalidate that forgets to lower current_size
MemoryCache_invalidate_stale(st, addr) ==
    IF addr = NoneArg THEN [cache |-> <<>>, current_size |-> 0]
    ELSE IF CacheHas(st.cache, addr)
    THEN [cache |-> SelectSeq(st.cache, LAMBDA e : e.addr # addr),
          current_size |-> st.current_size]
    ELSE st

\* invalidate(addr=None)
MemoryCache_invalidate(st, addr) ==
    IF addr = NoneArg THEN [cache |-> <<>>, current_size |-> 0]
    ELSE IF CacheHas(st.cache, addr)
    THEN [cache |-> SelectSeq(st.cache, LAMBDA e : e.addr # addr),
          current_size |->
              st.current_size - Len(CacheAt(st.cache, addr))]
    ELSE st

MemCacheAddrs ==
    { U64(0, 0, 0, 4096), U64(0, 0, 0, 4160), U64(0, 0, 0, 4224) }

GetSizes == { 8, 64, 128 }

PutSizes == { 0, 8, 64, 128, 192 }

CacheGet(addr, size) ==
    /\ last' = [op |-> "MemoryCache.get", args |-> <<addr, size>>,
                result |-> MemoryCache_get(cache, addr, size)]
    /\ UNCHANGED <<detectorVars, nonDetectorVars>>

CachePut(addr, data) ==
    /\ LET st == MemoryCache_put(cache, current_size, addr, data)
       IN  /\ cache' = st.cache
           /\ current_size' = st.current_size
    /\ last' = [op |-> "MemoryCache.put", args |-> <<addr, data>>,
                result |-> PyNone]
    /\ UNCHANGED <<detectorVars, objectTrackerVars, shapeTrackerVars,
                   corruptionModuleVars, toolVars>>

CacheInvalidate(addr) ==
    /\ LET st == MemoryCache_invalidate(
                     [cache |-> cache, current_size |-> current_size], addr)
       IN  /\ cache' = st.cache
           /\ current_size' = st.current_size
    /\ last' = [op |-> "MemoryCache.invalidate", args |-> <<addr>>,
                result |-> PyNone]
    /\ UNCHANGED <<detectorVars, objectTrackerVars, shapeTrackerVars,
                   corruptionModuleVars, toolVars>>

NextMemoryCache ==
    \/ \E a \in MemCacheAddrs, n \in GetSizes : CacheGet(a, n)
    \/ \E a \in MemCacheAddrs, n \in PutSizes :
         CachePut(a, TargetBytes(a, n))
    \/ \E a \in MemCacheAddrs \cup {NoneArg} : CacheInvalidate(a)

SpecMemoryCache == Init /\ [][NextMemoryCache]_vars

----------------------------------------------------------------------------
(* modules/object_tracking.py: ObjectTrackingModule.  The callbacks read the
   object header with JSObject.from_memory; outcome is what the read of the
   process gives. *)

\* freed_time = None (time.time() is positive)
NoTime == 0

ObjectHistory(alloc_addr, alloc_shape, alloc_time, events, freed, freed_time) ==
    [alloc_addr |-> alloc_addr, alloc_shape |-> alloc_shape,
     alloc_time |-> alloc_time, events |-> events, freed |-> freed,
     freed_time |-> freed_time]

\* _update_state
ObjectTrackerState(objs, allocs, frees) ==
    [objects_tracked |-> Cardinality(DOMAIN objs), alloc_count |-> allocs,
     free_count |-> frees]


\* shape fields found in the target: a pointer, another, a tagged value
HeaderShapes == { U64(0, 0, 0, 8192), U64(0, 0, 0, 1) }

\* reads of an object header: failed, or a header with class id 0 or 1
HeaderReads ==
    { ReadResult(FALSE, PyNone) } \cup
    { ReadResult(TRUE, Bytes(ObjectHeader(c, s))) :
        c \in {0, 1}, s \in HeaderShapes }

\* values of x0 when an object has been created
NewObjectRegs == { U64(0, 0, 0, 2048), U64(0, 0, 0, 12288) }

\* values of x1 at js_free_object and add_property, and addresses whose
\* history is asked for
ObjectRegs == { U64(0, 0, 0, 12288), U64(0, 0, 0, 16384) }

\* what time.time() and datetime.now() return in the callbacks
TrackerTimes == { 1 }

OnObjectCreate(ret_val, outcome, now1, now2) ==
    /\ obj_alloc_count < MaxCount
    /\ LET obj == IF U64Lt(ret_val, U64(0, 0, 0, 4096)) THEN PyNone
                  ELSE JSObject_from_memory(ret_val, outcome)
       IN  IF obj # PyNone /\ JSObject_is_valid(obj)
           THEN /\ objects' =
                     DictSet(objects, ret_val,
                             ObjectHistory(ret_val, obj.shape, now1,
                                 <<[type |-> "create", shape |-> obj.shape,
                                    time |-> now2]>>,
                                 FALSE, NoTime))
                /\ obj_alloc_count' = obj_alloc_count + 1
                /\ object_tracker_state' =
                     ObjectTrackerState(objects', obj_alloc_count',
                                        obj_free_count)
                /\ UNCHANGED obj_free_count
           ELSE UNCHANGED objectTrackerVars
    /\ last' = [op |-> "_on_object_create", args |-> <<ret_val, outcome>>,
                result |-> FALSE]
    /\ UNCHANGED <<detectorVars, cacheVars, shapeTrackerVars,
                   corruptionModuleVars, toolVars>>

\* a free callback that records an event
OnObjectFree_event(obj_addr, now) ==
    /\ obj_free_count < MaxCount
    /\ IF obj_addr \in DOMAIN objects
       THEN /\ objects' =
                 [objects EXCEPT
                    ![obj_addr].freed = TRUE,
                    ![obj_addr].freed_time = now,
                    ![obj_addr].events =
                        Append(@, [type |-> "free",
                                   shape |-> objects[obj_addr].alloc_shape,
                                   time |-> now])]
            /\ obj_free_count' = obj_free_count + 1
            /\ object_tracker_state' =
                 ObjectTrackerState(objects', obj_alloc_count,
                                    obj_free_count')
            /\ UNCHANGED obj_alloc_count
       ELSE UNCHANGED objectTrackerVars
    /\ last' = [op |-> "_on_object_free", args |-> <<obj_addr>>,
                result |-> FALSE]
    /\ UNCHANGED <<detectorVars, cacheVars, shapeTrackerVars,
                   corruptionModuleVars, toolVars>>

OnObjectFree(obj_addr, now) ==
    /\ obj_free_count < MaxCount
    /\ IF obj_addr \in DOMAIN objects
       THEN /\ objects' =
                 [objects EXCEPT ![obj_addr].freed = TRUE,
                                 ![obj_addr].freed_time = now]
            /\ obj_free_count' = obj_free_count + 1
            /\ object_tracker_state' =
                 ObjectTrackerState(objects', obj_alloc_count,
                                    obj_free_count')
            /\ UNCHANGED obj_alloc_count
       ELSE UNCHANGED objectTrackerVars
    /\ last' = [op |-> "_on_object_free", args |-> <<obj_addr>>,
                result |-> FALSE]
    /\ UNCHANGED <<detectorVars, cacheVars, shapeTrackerVars,
                   corruptionModuleVars, toolVars>>

OnShapeChange(obj_addr, outcome, now) ==
    /\ obj_addr \in DOMAIN objects =>
           Len(objects[obj_addr].events) < MaxEvents
    /\ LET obj == IF obj_addr \in DOMAIN objects
                  THEN JSObject_from_memory(obj_addr, outcome)
                  ELSE PyNone
       IN  IF obj # PyNone
           THEN /\ objects' =
                     [objects EXCEPT ![obj_addr].events =
                         Append(@, [type |-> "shape_change",
                                    shape |-> obj.shape, time |-> now])]
                /\ UNCHANGED <<obj_alloc_count, obj_free_count,
                               object_tracker_state>>
           ELSE UNCHANGED objectTrackerVars
    /\ last' = [op |-> "_on_shape_change", args |-> <<obj_addr, outcome>>,
                result |-> FALSE]
    /\ UNCHANGED <<detectorVars, cacheVars, shapeTrackerVars,
                   corruptionModuleVars, toolVars>>

\* self.objects.get(addr)
GetObjectHistory(addr) ==
    /\ last' = [op |-> "get_object_history", args |-> <<addr>>,
                result |-> IF addr \in DOMAIN objects THEN objects[addr]
                           ELSE PyNone]
    /\ UNCHANGED <<detectorVars, nonDetectorVars>>

NextObjectTracker ==
    \/ \E r \in NewObjectRegs, o \in HeaderReads :
         \E t1 \in TrackerTimes, t2 \in TrackerTimes :
            t1 <= t2 /\ OnObjectCreate(r, o, t1, t2)
    \/ \E r \in ObjectRegs, t \in TrackerTimes : OnObjectFree(r, t)
    \/ \E r \in ObjectRegs, o \in HeaderReads, t \in TrackerTimes :
         OnShapeChange(r, o, t)
    \/ \E r \in ObjectRegs : GetObjectHistory(r)

SpecObjectTracker == Init /\ [][NextObjectTracker]_vars

----------------------------------------------------------------------------
(* A debug session with the ShapeTrackingModule (modules/shape_tracking.py)
   and the MemoryCorruptionModule (modules/memory_corruption.py), whose
   detector is the CorruptionDetector of the variables above *)

ShapeEvent(timestamp, event_type, shape_addr, backtrace, details) ==
    [timestamp |-> timestamp, event_type |-> event_type,
     shape_addr |-> shape_addr, backtrace |-> backtrace,
     details |-> details]

\* ShapeTrackingModule._update_state
ShapeTrackerState(shps, allocs, frees, freed) ==
    [shapes_tracked |-> Cardinality(DOMAIN shps), alloc_count |-> allocs,
     free_count |-> frees, freed_shapes |-> Cardinality(freed)]

\* del d[k]
DictDel(d, k) == [x \in (DOMAIN d) \ {k} |-> d[x]]

\* the names of the functions of the first five frames
Backtrace == <<"???">>

\* ModuleConfig.stop_on_event
stop_on_event == TRUE

\* a local variable read before it is assigned
UnboundLocalError == [type |-> "raised", error |-> "UnboundLocalError"]

\* values of x0 at js_new_shape_nohash and of x1 at js_free_shape0
NewShapeRegs == { U64(0, 0, 0, 2048), U64(0, 0, 0, 8192) }
FreeShapeRegs == { Zero64, U64(0, 0, 0, 8192) }

\* reads of a shape header: failed, or 40 zero bytes
ShapeHeaderReads ==
    { ReadResult(FALSE, PyNone), ReadResult(TRUE, Bytes(Buffer(40, 0, 0))) }

\* reads of the header of the object a property is set on: failed, or a
\* header whose shape field is 0x2000, with class id 0 or 1
SessionHeaderReads ==
    { ReadResult(FALSE, PyNone) } \cup
    { ReadResult(TRUE, Bytes(ObjectHeader(c, U64(0, 0, 0, 8192)))) :
        c \in {0, 1} }

\* values of the registers at the breakpoints of the corruption module
CheckRegs == { U64(0, 0, 0, 2048), U64(0, 0, 0, 12288) }

OnShapeAlloc(ret_val, outcome, now) ==
    /\ Len(shape_events) < MaxEvents
    /\ LET shape == IF U64Lt(ret_val, U64(0, 0, 0, 4096)) THEN PyNone
                    ELSE JSShape_from_memory(ret_val, outcome)
       IN  IF shape # PyNone
           THEN /\ shapes' = DictSet(shapes, ret_val, shape)
                /\ shape_alloc_count' = shape_alloc_count + 1
                /\ shape_events' =
                     Append(shape_events,
                            ShapeEvent(now, "alloc", ret_val, Backtrace,
                                       [prop_size |-> shape.prop_size]))
                /\ shape_tracker_state' =
                     ShapeTrackerState(shapes', shape_alloc_count',
                                       shape_free_count,
                                       tracker_freed_shapes)
                /\ UNCHANGED <<tracker_freed_shapes, shape_free_count>>
           ELSE UNCHANGED shapeTrackerVars
    /\ last' = [op |-> "_on_shape_alloc", args |-> <<ret_val, outcome>>,
                result |-> FALSE]
    /\ UNCHANGED <<detectorVars, cacheVars, objectTrackerVars,
                   corruptionModuleVars, toolVars>>

OnShapeFree(shape_addr, now) ==
    /\ Len(shape_events) < MaxEvents
    /\ tracker_freed_shapes' = tracker_freed_shapes \cup {shape_addr}
    /\ shapes' = IF shape_addr \in DOMAIN shapes
                 THEN DictDel(shapes, shape_addr) ELSE shapes
    /\ shape_free_count' = shape_free_count + 1
    /\ shape_events' =
         Append(shape_events,
                ShapeEvent(now, "free", shape_addr, Backtrace, <<>>))
    /\ shape_tracker_state' =
         ShapeTrackerState(shapes', shape_alloc_count, shape_free_count',
                           tracker_freed_shapes')
    /\ UNCHANGED shape_alloc_count
    /\ last' = [op |-> "_on_shape_free", args |-> <<shape_addr>>,
                result |-> FALSE]
    /\ UNCHANGED <<detectorVars, cacheVars, objectTrackerVars,
                   corruptionModuleVars, toolVars>>

\* ShapeTrackingModule.is_shape_freed
ShapeTrackingModule_is_shape_freed(freed, shape_addr) == shape_addr \in freed

TrackerIsShapeFreed(shape_addr) ==
    /\ last' = [op |-> "ShapeTrackingModule.is_shape_freed",
                args |-> <<shape_addr>>,
                result |-> ShapeTrackingModule_is_shape_freed(
                               tracker_freed_shapes, shape_addr)]
    /\ UNCHANGED <<detectorVars, nonDetectorVars>>

\* _handle_corruption
HandleCorruption(corruption) ==
    /\ corruption_count' = corruption_count + 1
    /\ stopped_on_corruption' = TRUE
    /\ corruption_state' =
         [corruption_count |-> corruption_count',
          last_corruption |-> corruption, stopped |-> TRUE]

\* the breakpoint at find_own_property: reports a small psh, and otherwise
\* reads the local variable error before assigning it
CheckAtFindOwnProperty(psh) ==
    /\ last' = [op |-> "_check_at_find_own_property", args |-> <<psh>>,
                result |-> IF U64Lt(psh, U64(0, 0, 0, 4096))
                           THEN stop_on_event ELSE UnboundLocalError]
    /\ UNCHANGED <<detectorVars, nonDetectorVars>>

\* the breakpoint at JS_SetPropertyStr: reads the local variable error
\* before assigning it
CheckAtSetProperty(obj_val, prop_ptr) ==
    /\ last' = [op |-> "_check_at_set_property",
                args |-> <<obj_val, prop_ptr>>,
                result |-> UnboundLocalError]
    /\ UNCHANGED <<detectorVars, nonDetectorVars>>

\* the breakpoint at JS_SetPropertyInternal
CheckAtSetPropertyInternal(obj_val, outcome) ==
    /\ corruption_count < MaxCount
    /\ LET obj == IF U64Lt(obj_val, U64(0, 0, 0, 4096)) THEN PyNone
                  ELSE JSObject_from_memory(obj_val, outcome)
           corruption == check_object(obj)
       IN  IF obj # PyNone /\ corruption # NoReport
           THEN /\ HandleCorruption(corruption)
                /\ last' = [op |-> "_check_at_set_property_internal",
                            args |-> <<obj_val, outcome>>,
                            result |-> stop_on_event]
           ELSE /\ UNCHANGED corruptionModuleVars
                /\ last' = [op |-> "_check_at_set_property_internal",
                            args |-> <<obj_val, outcome>>,
                            result |-> FALSE]
    /\ UNCHANGED <<detectorVars, cacheVars, objectTrackerVars,
                   shapeTrackerVars, toolVars>>

NextSession ==
    \/ \E r \in NewShapeRegs, o \in ShapeHeaderReads, t \in TrackerTimes :
         OnShapeAlloc(r, o, t)
    \/ \E r \in FreeShapeRegs, t \in TrackerTimes : OnShapeFree(r, t)
    \/ \E r \in FreeShapeRegs : TrackerIsShapeFreed(r)
    \/ \E r \in CheckRegs : CheckAtFindOwnProperty(r)
    \/ \E r \in CheckRegs : CheckAtSetProperty(r, U64(0, 0, 0, 16384))
    \/ \E r \in CheckRegs, o \in SessionHeaderReads :
         CheckAtSetPropertyInternal(r, o)

SpecSession == Init /\ [][NextSession]_vars

----------------------------------------------------------------------------
(* lib/debug/watchpoints.py: WatchpointManager; modules/watchpoint_debug.py:
   WatchpointDebugModule.  A callable is written as its qualified name, no
   callable as the empty name.  target.WatchAddress either fails or makes a
   watchpoint whose id is the next one the debugger has not used. *)

MAX_WATCHPOINTS == 4

NoCallable == ""

WatchpointConfig(address, size, read, write, on_hit, condition) ==
    [address |-> address, size |-> size, read |-> read, write |-> write,
     on_hit |-> on_hit, condition |-> condition]

SBWatchpoint(id, address) ==
    [type |-> "SBWatchpoint", id |-> id, address |-> address]

\* the manager as a value: its two maps and the debugger's id counter
WatchManager(wps, hs, next_id) ==
    [watchpoints |-> wps, handlers |-> hs, next_id |-> next_id]

\* can_add_watchpoint that admits one watchpoint more
can_add_watchpoint_onemore(wps) == Cardinality(DOMAIN wps) <= MAX_WATCHPOINTS

can_add_watchpoint(wps) == Cardinality(DOMAIN wps) < MAX_WATCHPOINTS

\* add(config); ok is whether target.WatchAddress made a valid watchpoint
WatchpointManager_add(m, config, ok) ==
    IF ~can_add_watchpoint(m.watchpoints) THEN [value |-> PyNone, state |-> m]
    ELSE IF ~ok THEN [value |-> PyNone, state |-> m]
    ELSE LET wp == SBWatchpoint(m.next_id + 1, config.address)
         IN  [value |-> wp,
              state |-> WatchManager(
                  DictSet(m.watchpoints, wp.id, wp),
                  IF config.on_hit # NoCallable
                  THEN DictSet(m.handlers, wp.id, config.on_hit)
                  ELSE m.handlers,
                  m.next_id + 1)]

add_on_object_shape(m, obj_addr, on_hit, ok) ==
    WatchpointManager_add(m,
        WatchpointConfig(U64AddSmall(obj_addr, JSObjectOffset.SHAPE), 8,
                         FALSE, TRUE, on_hit, PyNone), ok)

WatchpointManager_remove(m, wp_id) ==
    IF wp_id \in DOMAIN m.watchpoints
    THEN WatchManager(DictDel(m.watchpoints, wp_id),
                      IF wp_id \in DOMAIN m.handlers
                      THEN DictDel(m.handlers, wp_id)
                      ELSE m.handlers,
                      m.next_id)
    ELSE m

RECURSIVE RemoveEach(_, _)
RemoveEach(m, ids) ==
    IF ids = {} THEN m
    ELSE LET i == CHOOSE x \in ids : TRUE
         IN  RemoveEach(WatchpointManager_remove(m, i), ids \ {i})

WatchpointManager_remove_all(m) == RemoveEach(m, DOMAIN m.watchpoints)

Manager == WatchManager(watchpoints, handlers, next_wp_id)

SetManager(m) ==
    /\ watchpoints' = m.watchpoints
    /\ handlers' = m.handlers
    /\ next_wp_id' = m.next_id

\* the most watchpoints the debugger makes in one run
MaxWatchIds == 5

\* addresses watched through add, and the callables given
WatchAddrs == { U64(0, 0, 0, 12296) }
WatchCallables == { NoCallable, "on_hit" }
WatchConfigs ==
    { WatchpointConfig(a, 8, FALSE, TRUE, h, PyNone) :
        a \in WatchAddrs, h \in WatchCallables }

WatchAdd(config, ok) ==
    /\ next_wp_id < MaxWatchIds
    /\ LET r == WatchpointManager_add(Manager, config, ok)
       IN  /\ SetManager(r.state)
           /\ last' = [op |-> "WatchpointManager.add",
                       args |-> <<config, ok>>, result |-> r.value]
    /\ UNCHANGED <<detectorVars, cacheVars, objectTrackerVars,
                   shapeTrackerVars, corruptionModuleVars, watchModuleVars,
                   breakpointVars, memoryDebugVars, rootCauseVars>>

WatchRemove(wp_id) ==
    /\ SetManager(WatchpointManager_remove(Manager, wp_id))
    /\ last' = [op |-> "WatchpointManager.remove", args |-> <<wp_id>>,
                result |-> PyNone]
    /\ UNCHANGED <<detectorVars, cacheVars, objectTrackerVars,
                   shapeTrackerVars, corruptionModuleVars, watchModuleVars,
                   breakpointVars, memoryDebugVars, rootCauseVars>>

WatchRemoveAll ==
    /\ SetManager(WatchpointManager_remove_all(Manager))
    /\ last' = [op |-> "WatchpointManager.remove_all", args |-> <<>>,
                result |-> PyNone]
    /\ UNCHANGED <<detectorVars, cacheVars, objectTrackerVars,
                   shapeTrackerVars, corruptionModuleVars, watchModuleVars,
                   breakpointVars, memoryDebugVars, rootCauseVars>>

WatchedObject(id, addr, original_shape, watchpoint) ==
    [id |-> id, addr |-> addr, original_shape |-> original_shape,
     watchpoint |-> watchpoint]

\* _try_set_watchpoint(obj_addr, obj_id), obj_addr being in watched: the
\* value returned, the module's map and counter, and the manager
try_set_watchpoint(watched, count, m, obj_addr, ok) ==
    IF count >= MAX_WATCHPOINTS
    THEN [value |-> FALSE, watched |-> watched, count |-> count, manager |-> m]
    ELSE LET r == add_on_object_shape(m, obj_addr, "_on_shape_changed", ok)
         IN  IF r.value # PyNone
             THEN [value |-> TRUE,
                   watched |-> DictSet(watched, obj_addr,
                       [watched[obj_addr] EXCEPT !.watchpoint = r.value]),
                   count |-> count + 1, manager |-> r.state]
             ELSE [value |-> FALSE, watched |-> watched, count |-> count,
                   manager |-> r.state]

\* _on_object_created: x0 is ret_val, outcome the read of the object header
OnObjectCreated(ret_val, outcome, ok) ==
    /\ object_counter < MaxCount
    /\ next_wp_id < MaxWatchIds
    /\ LET obj == JSObject_from_memory(ret_val, outcome)
       IN  IF U64Lt(ret_val, U64(0, 0, 0, 4096))
                \/ U64Lt(U64(0, 65535, 65535, 65535), ret_val)
                \/ obj = PyNone
                \/ ~JSObject_is_valid(obj)
                \/ JSObject_has_corrupted_shape(obj)
           THEN UNCHANGED <<watchpointVars, watchModuleVars>>
           ELSE LET obj_id == object_counter + 1
                    entered == DictSet(watched_objects, ret_val,
                        WatchedObject(obj_id, ret_val, obj.shape, PyNone))
                    r == try_set_watchpoint(entered, watch_count, Manager,
                                            ret_val, ok)
                IN  /\ object_counter' = obj_id
                    /\ watched_objects' = r.watched
                    /\ watch_count' = r.count
                    /\ SetManager(r.manager)
                    /\ watch_state' =
                         [watch_state EXCEPT
                            !.watchpoints_active =
                               IF r.value THEN r.count ELSE @,
                            !.objects_watched =
                               Cardinality(DOMAIN r.watched)]
    /\ last' = [op |-> "_on_object_created",
                args |-> <<ret_val, outcome, ok>>, result |-> FALSE]
    /\ UNCHANGED <<detectorVars, cacheVars, objectTrackerVars,
                   shapeTrackerVars, corruptionModuleVars,
                   breakpointVars, memoryDebugVars, rootCauseVars>>

\* _on_shape_changed(frame, wp_loc): with a watchpoint, the statement
\* "error = process.ReadPointerFromMemory(wp_addr, error)" reads the local
\* variable error before it is assigned
OnShapeChanged(has_watchpoint) ==
    /\ last' = [op |-> "_on_shape_changed", args |-> <<has_watchpoint>>,
                result |-> IF ~has_watchpoint THEN FALSE
                           ELSE UnboundLocalError]
    /\ UNCHANGED <<detectorVars, nonDetectorVars>>

NextWatchpoints ==
    \/ \E c \in WatchConfigs, ok \in BOOLEAN : WatchAdd(c, ok)
    \/ \E i \in 1..MaxWatchIds : WatchRemove(i)
    \/ WatchRemoveAll
    \/ \E r \in NewObjectRegs, o \in SessionHeaderReads, ok \in BOOLEAN :
         OnObjectCreated(r, o, ok)
    \/ \E w \in BOOLEAN : OnShapeChanged(w)

SpecWatchpoints == Init /\ [][NextWatchpoints]_vars

----------------------------------------------------------------------------
(* lib/debug/breakpoints.py: BreakpointManager.  BreakpointCreateByName and
   BreakpointCreateByAddress either make a valid breakpoint, whose id is the
   next one the debugger has not used, or an invalid one. *)

BreakpointConfig(name, on_hit, condition, python_condition, auto_continue, hit_count, command_on_hit, is_address) ==
    [name |-> name, on_hit |-> on_hit, condition |-> condition,
     python_condition |-> python_condition, auto_continue |-> auto_continue,
     hit_count |-> hit_count, command_on_hit |-> command_on_hit,
     is_address |-> is_address]

SBBreakpoint(id, valid) == [type |-> "SBBreakpoint", id |-> id, valid |-> valid]

\* what "del d[name]" raises when name is not a key of d
KeyError == [type |-> "raised", error |-> "KeyError"]

\* the manager as a value: its three maps and the debugger's id counter
BreakManager(bps, hs, cs, next_id) ==
    [breakpoints |-> bps, handlers |-> hs, configs |-> cs, next_id |-> next_id]

\* add(config); valid is whether the debugger made a valid breakpoint
BreakpointManager_add(m, config, valid) ==
    IF ~valid THEN [value |-> SBBreakpoint(0, FALSE), state |-> m]
    ELSE LET bp == SBBreakpoint(m.next_id + 1, TRUE)
         IN  [value |-> bp,
              state |-> BreakManager(
                  DictSet(m.breakpoints, config.name, bp),
                  IF config.on_hit # NoCallable
                  THEN DictSet(m.handlers, config.name, config.on_hit)
                  ELSE m.handlers,
                  DictSet(m.configs, config.name, config),
                  m.next_id + 1)]

\* add_with_inline_python(name, python_code, condition, is_address)
BreakpointManager_add_with_inline_python(m, name, valid) ==
    IF ~valid THEN [value |-> SBBreakpoint(0, FALSE), state |-> m]
    ELSE LET bp == SBBreakpoint(m.next_id + 1, TRUE)
         IN  [value |-> bp,
              state |-> BreakManager(DictSet(m.breakpoints, name, bp),
                                     m.handlers, m.configs, m.next_id + 1)]

\* remove(name): the three del statements run in this order, and the first
\* that raises ends the call
BreakpointManager_remove(m, name) ==
    IF name \notin DOMAIN m.breakpoints THEN [value |-> PyNone, state |-> m]
    ELSE LET bps == DictDel(m.breakpoints, name)
         IN  IF name \notin DOMAIN m.handlers
             THEN [value |-> KeyError,
                   state |-> BreakManager(bps, m.handlers, m.configs,
                                          m.next_id)]
             ELSE IF name \notin DOMAIN m.configs
             THEN [value |-> KeyError,
                   state |-> BreakManager(bps, DictDel(m.handlers, name),
                                          m.configs, m.next_id)]
             ELSE [value |-> PyNone,
                   state |-> BreakManager(bps, DictDel(m.handlers, name),
                                          DictDel(m.configs, name),
                                          m.next_id)]

BpManager == BreakManager(breakpoints, bp_handlers, bp_configs, next_bp_id)

SetBpManager(m) ==
    /\ breakpoints' = m.breakpoints
    /\ bp_handlers' = m.handlers
    /\ bp_configs' = m.configs
    /\ next_bp_id' = m.next_id

\* the most breakpoints the debugger makes in one run
MaxBreakpointIds == 4

BreakpointNames == { "JS_NewObjectFromShape", "js_free_shape0" }

BreakpointConfigs ==
    { BreakpointConfig(n, h, PyNone, PyNone, c, 0, PyNone, FALSE) :
        n \in BreakpointNames, h \in WatchCallables, c \in BOOLEAN }

BreakAdd(config, valid) ==
    /\ next_bp_id < MaxBreakpointIds
    /\ LET r == BreakpointManager_add(BpManager, config, valid)
       IN  /\ SetBpManager(r.state)
           /\ last' = [op |-> "BreakpointManager.add",
                       args |-> <<config, valid>>, result |-> r.value]
    /\ UNCHANGED <<detectorVars, cacheVars, objectTrackerVars,
                   shapeTrackerVars, corruptionModuleVars, watchpointVars,
                   watchModuleVars, memoryDebugVars, rootCauseVars>>

BreakAddWithInlinePython(name, valid) ==
    /\ next_bp_id < MaxBreakpointIds
    /\ LET r == BreakpointManager_add_with_inline_python(BpManager, name,
                                                          valid)
       IN  /\ SetBpManager(r.state)
           /\ last' = [op |-> "BreakpointManager.add_with_inline_python",
                       args |-> <<name, valid>>, result |-> r.value]
    /\ UNCHANGED <<detectorVars, cacheVars, objectTrackerVars,
                   shapeTrackerVars, corruptionModuleVars, watchpointVars,
                   watchModuleVars, memoryDebugVars, rootCauseVars>>

BreakRemove(name) ==
    /\ LET r == BreakpointManager_remove(BpManager, name)
       IN  /\ SetBpManager(r.state)
           /\ last' = [op |-> "BreakpointManager.remove",
                       args |-> <<name, name \in DOMAIN breakpoints>>,
                       result |-> r.value]
    /\ UNCHANGED <<detectorVars, cacheVars, objectTrackerVars,
                   shapeTrackerVars, corruptionModuleVars, watchpointVars,
                   watchModuleVars, memoryDebugVars, rootCauseVars>>

NextBreakpoints ==
    \/ \E c \in BreakpointConfigs, v \in BOOLEAN : BreakAdd(c, v)
    \/ \E n \in BreakpointNames, v \in BOOLEAN :
         BreakAddWithInlinePython(n, v)
    \/ \E n \in BreakpointNames : BreakRemove(n)

SpecBreakpoints == Init /\ [][NextBreakpoints]_vars

----------------------------------------------------------------------------
(* lldb_memory_debug.py: the callbacks on malloc and free.  dict is the
   dictionary the debugger hands to every callback.  heap is the target:
   blocks maps an address malloc has returned to "allocated" or "freed",
   in_malloc is whether a call of malloc has been entered and not left. *)

Heap(blocks, in_malloc) == [blocks |-> blocks, in_malloc |-> in_malloc]

\* on_malloc_breakpoint: the dict when the callback returns (it returns False)
on_malloc_breakpoint(d, size) ==
    IF "allocations" \notin DOMAIN d THEN DictSet(d, "allocations", <<>>)
    ELSE d

\* on_malloc_return: the dict when the callback returns (it returns False)
on_malloc_return(d, addr) ==
    IF addr # Zero64 /\ "last_malloc_size" \in DOMAIN d
    THEN LET d1 == IF "allocations" \notin DOMAIN d
                   THEN DictSet(d, "allocations", <<>>) ELSE d
         IN  DictSet(d1, "allocations",
                 DictSet(d1["allocations"], addr,
                     [size |-> d1["last_malloc_size"],
                      backtrace |-> Backtrace]))
    ELSE d

\* on_free_breakpoint: the value returned and the dict
on_free_breakpoint(d, ptr) ==
    LET d1 == IF "freed_addrs" \notin DOMAIN d
              THEN DictSet(d, "freed_addrs", {}) ELSE d
    IN  IF ptr \in d1["freed_addrs"] THEN [value |-> TRUE, dict |-> d1]
        ELSE IF "allocations" \in DOMAIN d1
                  /\ ptr \in DOMAIN d1["allocations"]
             THEN [value |-> FALSE,
                   dict |-> DictSet(
                       DictSet(d1, "allocations",
                               DictDel(d1["allocations"], ptr)),
                       "freed_addrs", d1["freed_addrs"] \cup {ptr})]
             ELSE [value |-> FALSE, dict |-> d1]

\* addresses malloc returns (0 when it fails) and sizes asked for
HeapAddrs ==
    { U64(0, 0, 0, 16384), U64(0, 0, 0, 16448), U64(0, 0, 0, 16512) }
MallocSizes == { 16, 2000000 }

\* malloc is entered with x0 = size
OnMallocBreakpoint(size) ==
    /\ ~heap.in_malloc
    /\ dict' = on_malloc_breakpoint(dict, size)
    /\ heap' = Heap(heap.blocks, TRUE)
    /\ last' = [op |-> "on_malloc_breakpoint", args |-> <<size>>,
                result |-> FALSE]
    /\ UNCHANGED <<detectorVars, cacheVars, objectTrackerVars,
                   shapeTrackerVars, corruptionModuleVars, watchpointVars,
                   watchModuleVars, breakpointVars, rootCauseVars>>

\* malloc returns x0 = addr: 0, or a block that is not allocated
OnMallocReturn(addr) ==
    /\ heap.in_malloc
    /\ addr \in DOMAIN heap.blocks => heap.blocks[addr] = "freed"
    /\ dict' = on_malloc_return(dict, addr)
    /\ heap' = Heap(IF addr = Zero64 THEN heap.blocks
                    ELSE DictSet(heap.blocks, addr, "allocated"), FALSE)
    /\ last' = [op |-> "on_malloc_return", args |-> <<addr>>,
                result |-> FALSE]
    /\ UNCHANGED <<detectorVars, cacheVars, objectTrackerVars,
                   shapeTrackerVars, corruptionModuleVars, watchpointVars,
                   watchModuleVars, breakpointVars, rootCauseVars>>

\* free is entered with x0 = ptr, a block malloc has returned; the second
\* argument recorded is whether the block was already freed
OnFreeBreakpoint(ptr) ==
    /\ ~heap.in_malloc
    /\ ptr \in DOMAIN heap.blocks
    /\ LET r == on_free_breakpoint(dict, ptr)
       IN  /\ dict' = r.dict
           /\ last' = [op |-> "on_free_breakpoint",
                       args |-> <<ptr, heap.blocks[ptr] = "freed">>,
                       result |-> r.value]
    /\ heap' = Heap(DictSet(heap.blocks, ptr, "freed"), FALSE)
    /\ UNCHANGED <<detectorVars, cacheVars, objectTrackerVars,
                   shapeTrackerVars, corruptionModuleVars, watchpointVars,
                   watchModuleVars, breakpointVars, rootCauseVars>>

NextMemoryDebug ==
    \/ \E n \in MallocSizes : OnMallocBreakpoint(n)
    \/ \E a \in HeapAddrs \cup {Zero64} : OnMallocReturn(a)
    \/ \E a \in HeapAddrs : OnFreeBreakpoint(a)

SpecMemoryDebug == Init /\ [][NextMemoryDebug]_vars

----------------------------------------------------------------------------
(* lldb_root_cause.py: on_new_object, on_shape_write and the toggle of
   stop_on_corruption.  A name obj_N is written <<"obj_", N>>; None, which
   read_u64 returns for a failed read, is NoneArg. *)

TrackedObject(obj_addr, shape_addr, alloc_pc, name) ==
    [obj_addr |-> obj_addr, shape_addr |-> shape_addr, alloc_pc |-> alloc_pc,
     name |-> name, watchpoint |-> PyNone, corrupted |-> FALSE,
     history |-> <<>>]

\* what a comparison of None with an integer raises
TypeError == [type |-> "raised", error |-> "TypeError"]

\* read_u64(process, addr); outcome is what process.ReadMemory(addr, 8) gives
read_u64(outcome) ==
    IF outcome.success /\ Truthy(outcome.data) /\ Len(outcome.data.b) = 8
    THEN unpack_Q(outcome.data.b, 0)
    ELSE NoneArg

\* v - k for a small k <= v
U64SubSmall(v, k) ==
    LET b0 == IF v[4] < k THEN 1 ELSE 0
        b1 == IF v[3] < b0 THEN 1 ELSE 0
        b2 == IF v[2] < b1 THEN 1 ELSE 0
    IN  <<v[1] - b2, (v[2] - b1 + 65536) % 65536,
          (v[3] - b0 + 65536) % 65536, (v[4] - k + 65536) % 65536>>

\* "Only set watchpoints for first 20 objects"
WatchedObjectLimit == 20

\* the pc of the write that hit the watchpoint, and the trace of 5 frames
PcOfWrite == U64(0, 0, 1, 0)
RootCauseBacktrace == <<"#0: ?? @ 0x10000">>

ShapeWriteEvent(time, old_shape, new_shape, pc, backtrace) ==
    [time |-> time, old_shape |-> old_shape, new_shape |-> new_shape,
     pc |-> pc, backtrace |-> backtrace]

\* is_corruption, for a new_shape that is not None
is_corruption(new_shape) ==
    \/ new_shape = Zero64
    \/ new_shape = AllOnes64
    \/ U64Lt(new_shape, U64(0, 0, 0, 4096))
    \/ U64Lt(U64(0, 65535, 65535, 65535), new_shape)

\* values of x0 when JS_NewObjectFromShape returns
RootCauseRegs == { U64(0, 0, 0, 2048), U64(0, 0, 0, 12288) }

\* addresses of the watchpoints that are hit
WatchHitAddrs == { Zero64, U64(0, 0, 0, 12296), U64(0, 0, 0, 16392) }

\* reads of the 8 bytes of a shape field
ShapeFieldReads ==
    { ReadResult(FALSE, PyNone) } \cup
    { ReadResult(TRUE, Bytes(Bytes64(v))) :
        v \in { U64(0, 0, 0, 8), U64(0, 0, 0, 8192), U64(1, 0, 0, 0) } }

\* on_new_object: x0 is ret_val, outcome the read of the shape field, wp_ok
\* whether target.WatchAddress gave a valid watchpoint
OnNewObject(ret_val, outcome, wp_ok) ==
    /\ next_obj_id < MaxCount
    /\ LET shape_ptr == read_u64(outcome)
       IN  IF ~is_valid_obj_addr(ret_val)
           THEN /\ UNCHANGED rootCauseVars
                /\ last' = [op |-> "on_new_object",
                            args |-> <<ret_val, outcome, wp_ok>>,
                            result |-> FALSE]
           ELSE IF shape_ptr = NoneArg
           THEN /\ UNCHANGED rootCauseVars
                /\ last' = [op |-> "on_new_object",
                            args |-> <<ret_val, outcome, wp_ok>>,
                            result |-> TypeError]
           ELSE IF shape_ptr = Zero64 \/ shape_ptr = AllOnes64
                     \/ U64Lt(shape_ptr, U64(0, 0, 0, 4096))
           THEN /\ UNCHANGED rootCauseVars
                /\ last' = [op |-> "on_new_object",
                            args |-> <<ret_val, outcome, wp_ok>>,
                            result |-> FALSE]
           ELSE LET obj == TrackedObject(ret_val, shape_ptr,
                               RootCauseBacktrace,
                               <<"obj_", next_obj_id + 1>>)
                    wp == IF next_obj_id + 1 <= WatchedObjectLimit /\ wp_ok
                          THEN [type |-> "SBWatchpoint",
                                address |-> U64AddSmall(ret_val, 8)]
                          ELSE PyNone
                IN  /\ next_obj_id' = next_obj_id + 1
                    /\ tracked_objects' =
                         DictSet(tracked_objects, ret_val,
                                 [obj EXCEPT !.watchpoint = wp])
                    /\ UNCHANGED stop_on_corruption
                    /\ last' = [op |-> "on_new_object",
                                args |-> <<ret_val, outcome, wp_ok>>,
                                result |-> FALSE]
    /\ UNCHANGED <<detectorVars, cacheVars, objectTrackerVars,
                   shapeTrackerVars, corruptionModuleVars, watchpointVars,
                   watchModuleVars, breakpointVars, memoryDebugVars>>

\* on_shape_write: wp_addr is the address of the watchpoint that was hit (0
\* without one), outcome the read of the 8 bytes at wp_addr
OnShapeWrite(wp_addr, outcome, now) ==
    /\ LET obj_addr == IF wp_addr # Zero64 THEN U64SubSmall(wp_addr, 8)
                       ELSE Zero64
       IN  IF obj_addr \notin DOMAIN tracked_objects
           THEN /\ UNCHANGED rootCauseVars
                /\ last' = [op |-> "on_shape_write",
                            args |-> <<wp_addr, outcome>>, result |-> FALSE]
           ELSE LET obj == tracked_objects[obj_addr]
                    new_shape == read_u64(outcome)
                    event == ShapeWriteEvent(now, obj.shape_addr, new_shape,
                                             PcOfWrite, RootCauseBacktrace)
                    appended == [obj EXCEPT !.history = Append(@, event)]
                IN  /\ Len(obj.history) < MaxEvents
                    /\ UNCHANGED <<next_obj_id, stop_on_corruption>>
                    /\ IF new_shape = NoneArg
                       THEN /\ tracked_objects' =
                                 DictSet(tracked_objects, obj_addr, appended)
                            /\ last' = [op |-> "on_shape_write",
                                        args |-> <<wp_addr, outcome>>,
                                        result |-> TypeError]
                       ELSE IF is_corruption(new_shape)
                       THEN /\ tracked_objects' =
                                 DictSet(tracked_objects, obj_addr,
                                     [appended EXCEPT !.corrupted = TRUE,
                                                      !.shape_addr = new_shape])
                            /\ last' = [op |-> "on_shape_write",
                                        args |-> <<wp_addr, outcome>>,
                                        result |-> stop_on_corruption]
                       ELSE /\ tracked_objects' =
                                 DictSet(tracked_objects, obj_addr,
                                     [appended EXCEPT !.shape_addr = new_shape])
                            /\ last' = [op |-> "on_shape_write",
                                        args |-> <<wp_addr, outcome>>,
                                        result |-> FALSE]
    /\ UNCHANGED <<detectorVars, cacheVars, objectTrackerVars,
                   shapeTrackerVars, corruptionModuleVars, watchpointVars,
                   watchModuleVars, breakpointVars, memoryDebugVars>>

\* RootCauseDebugger.stop_toggle(args)
StopToggle(args) ==
    /\ stop_on_corruption' = (args # "off")
    /\ UNCHANGED <<tracked_objects, next_obj_id>>
    /\ last' = [op |-> "stop_toggle", args |-> <<args>>, result |-> PyNone]
    /\ UNCHANGED <<detectorVars, cacheVars, objectTrackerVars,
                   shapeTrackerVars, corruptionModuleVars, watchpointVars,
                   watchModuleVars, breakpointVars, memoryDebugVars>>

NextRootCause ==
    \/ \E r \in RootCauseRegs, o \in ShapeFieldReads, ok \in BOOLEAN :
         OnNewObject(r, o, ok)
    \/ \E w \in WatchHitAddrs, o \in ShapeFieldReads, t \in TrackerTimes :
         OnShapeWrite(w, o, t)
    \/ \E x \in {"off", "on"} : StopToggle(x)

SpecRootCause == Init /\ [][NextRootCause]_vars

----------------------------------------------------------------------------
(* Properties of the classifier *)

IsCheckShape == last.op = "check_shape"
ShapeArg == last.args[1]

\* MIN_VALID_PTR <= v <= MAX_VALID_PTR
InPlausibleRange(v) == ~U64Lt(v, MIN_VALID_PTR) /\ ~U64Lt(MAX_VALID_PTR, v)

\* 0xc0000000 and 0xc0000008, the suspicious patterns inside the valid range
InRangePatterns == { U64(0, 0, 49152, 0), U64(0, 0, 49152, 8) }

\* the values 1 .. 15
SmallTagged == { U64(0, 0, 0, k) : k \in 1..15 }

\* C1, as stated: a classification of a value that register_freed_shape has
\* put into the freed set, and that is still in it, returns FREED_SHAPE.
C1_FreedAlwaysReported ==
    (IsCheckShape /\ ShapeArg \in freed_shapes)
        => last.result.type = "FREED_SHAPE"

\* C1, amended: an address stays in the freed set until register_good_shape
\* is called for it, and while it is in the freed set a classification of it
\* returns FREED_SHAPE provided no earlier rule matches, i.e. the value lies
\* in [MIN_VALID_PTR, MAX_VALID_PTR] and is not 0xc0000000 or 0xc0000008.
C1_FreedReportedUnlessEarlierRule ==
    [][ /\ \A a \in freed_shapes :
            \/ a \in freed_shapes'
            \/ (last'.op = "register_good_shape" /\ last'.args[1] = a)
        /\ ( /\ last'.op = "check_shape"
             /\ last'.args[1] \in freed_shapes'
             /\ InPlausibleRange(last'.args[1])
             /\ last'.args[1] \notin InRangePatterns )
           => last'.result.type = "FREED_SHAPE" ]_vars

C1_Witness ==
    /\ IsCheckShape
    /\ ShapeArg = U64(0, 0, 0, 8192)
    /\ ShapeArg \in freed_shapes
    /\ last.result.type = "FREED_SHAPE"

\* C2: check_shape(v) returns None iff v is non-zero, not all-ones, at least
\* MIN_VALID_PTR, at most MAX_VALID_PTR, 8-byte aligned and not freed.
C2_ValidIffInvariant ==
    IsCheckShape =>
        ( last.result = NoReport
          <=> ( /\ ShapeArg # Zero64
                /\ ShapeArg # AllOnes64
                /\ InPlausibleRange(ShapeArg)
                /\ LowThreeBits(ShapeArg) = 0
                /\ ShapeArg \notin freed_shapes ) )

\* C3: check_shape(0) returns NULL_SHAPE whatever the freed set contains.
C3_ZeroIsNull ==
    (IsCheckShape /\ ShapeArg = Zero64) => last.result.type = "NULL_SHAPE"

C3_Witness ==
    /\ IsCheckShape
    /\ ShapeArg = Zero64
    /\ Zero64 \in freed_shapes
    /\ last.result.type = "NULL_SHAPE"

\* C4: check_shape(0xFFFFFFFFFFFFFFFF) returns the sentinel (tagged value)
\* classification, not out-of-range and not freed, whatever the freed set.
C4_AllOnesIsSentinel ==
    (IsCheckShape /\ ShapeArg = AllOnes64) =>
        /\ last.result.type = "TAGGED_VALUE"
        /\ last.result.description =
             <<"Shape is -1 (looks like JS_TAG_OBJECT), memory corruption likely">>

C4_Witness ==
    /\ IsCheckShape
    /\ ShapeArg = AllOnes64
    /\ AllOnes64 \in freed_shapes
    /\ last.result.type = "TAGGED_VALUE"

\* C5: looks_like_tagged_value is true for exactly the values 1 .. 15, and
\* check_shape gives exactly those values the tagged-JSValue classification.
C5_SmallScalarIsTagged ==
    /\ \A v \in Values : looks_like_tagged_value(v) <=> v \in SmallTagged
    /\ IsCheckShape =>
         ( ShapeArg \in SmallTagged
           <=> ( /\ last.result.type = "TAGGED_VALUE"
                 /\ last.result.description[1] =
                      "Shape looks like tagged JSValue: " ) )

C5_Witness ==
    /\ IsCheckShape
    /\ ShapeArg = U64(0, 0, 0, 1)
    /\ last.result.type = "TAGGED_VALUE"
    /\ last.result.description =
         <<"Shape looks like tagged JSValue: ", <<"JS_TAG_BOOL/UNDEFINED">> >>

\* the values 0x10 .. 0xFFF
BelowMinNotTagged(v) ==
    /\ U64Lt(v, MIN_VALID_PTR)
    /\ ~U64Lt(v, U64(0, 0, 0, 16))

\* C6, as stated: a value in 0x10 .. 0xFFF gets a classification of its own,
\* distinct from the tagged-value classification.
C6_LowHasOwnTag ==
    (IsCheckShape /\ BelowMinNotTagged(ShapeArg)) =>
        /\ last.result # NoReport
        /\ last.result.type # "TAGGED_VALUE"

\* C6, amended: a value in 0x10 .. 0xFFF gets the TAGGED_VALUE classification
\* too; only the description ("Shape is small value ...") and the missing
\* recommendation tell it from the small-encoded-scalar report.
C6_LowIsTaggedValue ==
    (IsCheckShape /\ BelowMinNotTagged(ShapeArg)) =>
        /\ last.result.type = "TAGGED_VALUE"
        /\ last.result.description[1] = "Shape is small value (0x"
        /\ last.result.description[2] = ShapeArg
        /\ last.result.recommendation = NoRecommendation

C6_Witness ==
    /\ IsCheckShape
    /\ ShapeArg = U64(0, 0, 0, 4095)
    /\ last.result.type = "TAGGED_VALUE"

\* C7: a value above MAX_VALID_PTR other than all-ones is OUT_OF_RANGE,
\* whatever the freed set contains.
C7_HighIsOutOfRange ==
    (IsCheckShape /\ U64Lt(MAX_VALID_PTR, ShapeArg) /\ ShapeArg # AllOnes64)
        => last.result.type = "OUT_OF_RANGE"

C7_Witness ==
    /\ IsCheckShape
    /\ ShapeArg = U64(1, 0, 0, 1)
    /\ ShapeArg \in freed_shapes
    /\ last.result.type = "OUT_OF_RANGE"

\* C8: check_shape and check_object leave the freed set, the known-good set
\* and the object history alone, and the same call made twice in a row
\* returns the same result.
C8_ClassificationIdempotent ==
    [][ /\ last'.op \in {"check_shape", "check_object"}
            => UNCHANGED <<freed_shapes, known_good_shapes, object_history>>
        /\ ( /\ last.op \in {"check_shape", "check_object"}
             /\ last'.op = last.op
             /\ last'.args = last.args )
           => last'.result = last.result ]_vars

C8_Witness ==
    /\ IsCheckShape
    /\ ShapeArg \in freed_shapes
    /\ known_good_shapes # {}
    /\ DOMAIN object_history # {}
    /\ last.result.type = "FREED_SHAPE"

\* C9: check_object reports an invalid object for a class id outside 1..255
\* whatever the shape and the freed set, and otherwise returns what
\* check_shape(obj.shape, obj.addr) returns.
C9_ClassIdFirst ==
    last.op = "check_object" =>
        LET obj == last.args[1]
        IN  IF obj.class_id \notin 1..255
            THEN /\ last.result.type = "INVALID_POINTER"
                 /\ last.result.severity = "warning"
                 /\ last.result.object_addr = obj.addr
                 /\ last.result.shape_value = obj.shape
                 /\ last.result.description =
                      <<"Object has invalid class_id: ", obj.class_id>>
            ELSE last.result = check_shape(obj.shape, obj.addr)

C9_Witness ==
    /\ last.op = "check_object"
    /\ last.args[1].class_id = 300
    /\ last.args[1].shape \in freed_shapes
    /\ InPlausibleRange(last.args[1].shape)
    /\ last.result.type = "INVALID_POINTER"

C9_WitnessDelegates ==
    /\ last.op = "check_object"
    /\ last.args[1].class_id = 255
    /\ last.result.type = "FREED_SHAPE"

----------------------------------------------------------------------------
(* Properties of the reports *)

CorruptionTypes ==
    { "NULL_SHAPE", "INVALID_POINTER", "TAGGED_VALUE", "FREED_SHAPE",
      "SHAPE_CHANGED_UNEXPECTEDLY", "USE_AFTER_FREE", "OUT_OF_RANGE" }

\* r is a CorruptionReport
IsCorruptionReport(r) ==
    /\ DOMAIN r = { "type", "object_addr", "shape_value", "expected_range",
                    "description", "severity", "recommendation" }
    /\ r.type \in CorruptionTypes
    /\ r.severity \in { "warning", "critical" }
    /\ Len(r.description) > 0

IsClassification ==
    last.op \in { "check_shape", "check_object", "check_shape_change" }

\* C15: check_shape, check_object and check_shape_change complete for every
\* shape value, class id and freed set, and return either no corruption
\* (None) or a corruption report; nothing is raised.
C15_ClassificationReturns ==
    IsClassification =>
        \/ last.result = NoReport
        \/ IsCorruptionReport(last.result)

\* an unexpected shape change reported, and one that is not reported
C15_Witness ==
    /\ last.op = "check_shape_change"
    /\ last.result # NoReport
    /\ last.result.type = "SHAPE_CHANGED_UNEXPECTEDLY"
    /\ last.result.shape_value = last.args[3]

C15_WitnessNoChangeReport ==
    /\ last.op = "check_shape_change"
    /\ last.result = NoReport

\* C18 as stated: every report of check_shape carries the offending value,
\* the expected valid range (0x1000, 0x0000FFFFFFFFFFFF), a non-empty
\* explanation and a severity, for every tag including the freed-shape one.
C18_EveryReportHasRange ==
    (IsCheckShape /\ last.result # NoReport) =>
        /\ last.result.shape_value = ShapeArg
        /\ last.result.expected_range =
               <<U64(0, 0, 0, 4096), U64(0, 65535, 65535, 65535)>>
        /\ Len(last.result.description) > 0
        /\ last.result.severity \in { "warning", "critical" }

\* C18: every report of check_shape carries the offending value, a non-empty
\* explanation and a severity; it carries the expected valid range
\* (0x1000, 0x0000FFFFFFFFFFFF) for every tag except the freed-shape one,
\* whose report has no range.
C18_ReportHasRangeUnlessFreed ==
    (IsCheckShape /\ last.result # NoReport) =>
        /\ last.result.shape_value = ShapeArg
        /\ last.result.type # "FREED_SHAPE" =>
               last.result.expected_range =
                   <<U64(0, 0, 0, 4096), U64(0, 65535, 65535, 65535)>>
        /\ last.result.type = "FREED_SHAPE" =>
               last.result.expected_range = NoRange
        /\ Len(last.result.description) > 0
        /\ last.result.severity \in { "warning", "critical" }

\* a report for a suspicious pattern, with the range
C18_Witness ==
    /\ IsCheckShape
    /\ ShapeArg \in SUSPICIOUS_PATTERNS
    /\ last.result # NoReport
    /\ last.result.expected_range = ValidRange

\* a freed-shape report, without one
C18_WitnessFreed ==
    /\ IsCheckShape
    /\ last.result # NoReport
    /\ last.result.type = "FREED_SHAPE"
    /\ last.result.expected_range = NoRange

----------------------------------------------------------------------------
(***************************************************************************)
(* Properties of the registrations                                         *)
(***************************************************************************)

\* What a registration call leaves for its own address and for the others
RegistrationEffect ==
    /\ last'.op = "register_freed_shape" =>
          /\ is_shape_freed(freed_shapes', last'.args[1])
          /\ last'.args[1] \notin known_good_shapes'
          /\ \A a \in RegAddrs \ {last'.args[1]} :
                /\ is_shape_freed(freed_shapes', a) <=> is_shape_freed(freed_shapes, a)
                /\ a \in known_good_shapes' <=> a \in known_good_shapes
    /\ last'.op = "register_good_shape" =>
          /\ ~is_shape_freed(freed_shapes', last'.args[1])
          /\ last'.args[1] \in known_good_shapes'
          /\ \A a \in RegAddrs \ {last'.args[1]} :
                /\ is_shape_freed(freed_shapes', a) <=> is_shape_freed(freed_shapes, a)
                /\ a \in known_good_shapes' <=> a \in known_good_shapes
    /\ last'.op \notin {"register_freed_shape", "register_good_shape"} =>
          /\ freed_shapes' = freed_shapes
          /\ known_good_shapes' = known_good_shapes
    /\ last'.op = "is_shape_freed" =>
          last'.result = (last'.args[1] \in freed_shapes)

\* C22: the freed set and the known-good set are always disjoint, and every
\* call keeps is_shape_freed(a) equal to "the most recent registration of a
\* was register_freed_shape": register_freed_shape(a) makes a freed and not
\* good, register_good_shape(a) makes a good and not freed, neither changes
\* any other address, and no other call changes either set.
C22_RegistrationsDisjoint ==
    /\ [](freed_shapes \cap known_good_shapes = {})
    /\ [][RegistrationEffect]_vars

C22_Witness ==
    /\ last.op = "is_shape_freed"
    /\ last.result = FALSE
    /\ last.args[1] \in known_good_shapes
    /\ freed_shapes # {}

C22_WitnessFreedAgain ==
    /\ last.op = "register_freed_shape"
    /\ last.args[1] \in freed_shapes
    /\ known_good_shapes # {}

(* Properties of check_shape_change *)

\* two reports that differ at most in their description
SameButDescription(r, s) ==
    /\ r.type = s.type
    /\ r.object_addr = s.object_addr
    /\ r.shape_value = s.shape_value
    /\ r.expected_range = s.expected_range
    /\ r.severity = s.severity
    /\ r.recommendation = s.recommendation

\* C21: check_shape_change(obj_addr, old, new) returns a report tagged
\* SHAPE_CHANGED_UNEXPECTEDLY exactly when check_shape(new) reports, and no
\* report otherwise; whether it reports, the tag and every field of the
\* report but the text of the description are the same for every old shape.
C21_ChangeReportedIffNewCorrupt ==
    last.op = "check_shape_change" =>
        LET base == check_shape(last.args[3], last.args[1])
        IN  /\ last.result = NoReport <=> base = NoReport
            /\ last.result # NoReport =>
                 /\ last.result.type = "SHAPE_CHANGED_UNEXPECTEDLY"
                 /\ last.result.shape_value = last.args[3]
                 /\ last.result.expected_range = base.expected_range
                 /\ last.result.severity = base.severity
                 /\ \A old \in OldShapes :
                      LET other == check_shape_change(last.args[1], old,
                                                      last.args[3])
                      IN  /\ other # NoReport
                          /\ SameButDescription(last.result, other)
            /\ last.result = NoReport =>
                 \A old \in OldShapes :
                    check_shape_change(last.args[1], old, last.args[3])
                        = NoReport

\* a change from a suspicious pattern to a valid shape: nothing reported
C21_Witness ==
    /\ last.op = "check_shape_change"
    /\ last.args[2] = U64(0, 0, 49152, 0)
    /\ last.args[3] = U64(0, 0, 0, 8192)
    /\ last.result = NoReport

\* a change to a freed shape, reported as an unexpected transition
C21_WitnessReported ==
    /\ last.op = "check_shape_change"
    /\ last.args[3] \in freed_shapes
    /\ last.args[3] = U64(0, 0, 0, 8192)
    /\ last.result # NoReport
    /\ last.result.type = "SHAPE_CHANGED_UNEXPECTEDLY"

----------------------------------------------------------------------------
(***************************************************************************)
(* Properties of the inspector                                             *)
(***************************************************************************)

\* C23: with an empty freed set, has_corrupted_shape() of an object is true
\* exactly when check_shape of its shape field returns a report, and an
\* inspection of an object with a valid class id never holds both a decoded
\* shape and a corruption report.
C23_QuickCheckAgrees ==
    /\ (last.op = "has_corrupted_shape" /\ freed_shapes = {}) =>
          (last.result <=>
             check_shape(last.args[1].shape, last.args[1].addr) # NoReport)
    /\ (last.op = "inspect_object" /\ freed_shapes = {}
            /\ last.result # PyNone) =>
          (JSObject_is_valid(last.result.object) =>
             ~(last.result.shape # PyNone
                 /\ last.result.corruption # NoReport))

\* The half that holds: a shape the quick check calls corrupted is reported
\* by the classifier.
C23_QuickCheckIsSound ==
    last.op = "has_corrupted_shape" =>
        (last.result =>
           check_shape(last.args[1].shape, last.args[1].addr) # NoReport)

\* an inspection that holds a decoded shape and a report on the shape field
C23_ShapeAndReport ==
    /\ last.op = "inspect_object"
    /\ last.result # PyNone
    /\ JSObject_is_valid(last.result.object)
    /\ last.result.shape # PyNone
    /\ last.result.corruption # NoReport
    /\ freed_shapes = {}

(* Properties of the decoders *)

\* the read failed, or gave fewer than n bytes
ShortRead(outcome, n) ==
    \/ ~outcome.success
    \/ outcome.data = PyNone
    \/ Len(outcome.data.b) < n

\* C10: from a failed read or a buffer shorter than the structure (24 bytes
\* for the object header, 40 for the shape header) the decoders return None.
C10_ShortBufferFails ==
    /\ (last.op = "JSObject.from_memory" /\ ShortRead(last.args[2], 24))
         => last.result = PyNone
    /\ (last.op = "JSShape.from_memory" /\ ShortRead(last.args[2], 40))
         => last.result = PyNone
    /\ (last.op = "read_object" /\ ShortRead(last.args[2], 24))
         => last.result = PyNone

C10_Witness ==
    /\ last.op = "JSObject.from_memory"
    /\ ~U64Lt(last.args[1], MIN_VALID_PTR)
    /\ last.args[2].success
    /\ last.args[2].data # PyNone
    /\ Len(last.args[2].data.b) = 23
    /\ last.result = PyNone

\* the address is one JSShape.from_memory accepts
AcceptedShapeAddr(addr) ==
    /\ addr # Zero64
    /\ ~U64Lt(addr, U64(0, 0, 0, 4096))
    /\ ~U64Lt(U64(0, 65535, 65535, 65535), addr)
    /\ addr[4] % 8 = 0

\* C11 as stated: for any base address, whenever at least the minimum number
\* of bytes is available the decoder produces a structured record, and it
\* returns None only when fewer bytes were available than required.
C11_RecordWheneverEnoughBytes ==
    /\ (last.op = "JSObject.from_memory" /\ ~ShortRead(last.args[2], 24))
         => last.result # PyNone
    /\ (last.op = "JSShape.from_memory" /\ ~ShortRead(last.args[2], 40))
         => last.result # PyNone

\* C11: the decoders return None exactly when the address is refused (object:
\* below 0x1000; shape: not a valid pointer) or fewer bytes than the structure
\* were read; for an accepted address and enough bytes they return a record
\* for that address whatever the bytes contain.
C11_NoneIffRefusedOrShort ==
    /\ last.op = "JSObject.from_memory" =>
         /\ last.result = PyNone <=>
              \/ U64Lt(last.args[1], U64(0, 0, 0, 4096))
              \/ ShortRead(last.args[2], 24)
         /\ last.result # PyNone => last.result.addr = last.args[1]
    /\ last.op = "JSShape.from_memory" =>
         /\ last.result = PyNone <=>
              \/ ~AcceptedShapeAddr(last.args[1])
              \/ ShortRead(last.args[2], 40)
         /\ last.result # PyNone => last.result.addr = last.args[1]

\* decoded, but the contents are invalid: class id 0
C11_Witness ==
    /\ last.op = "JSObject.from_memory"
    /\ last.result # PyNone
    /\ last.result.class_id = 0
    /\ ~JSObject_is_valid(last.result)

\* a shape header of 40 bytes at a refused address
C11_WitnessRefused ==
    /\ last.op = "JSShape.from_memory"
    /\ ~ShortRead(last.args[2], 40)
    /\ last.result = PyNone
\* reference decoding: little-endian fields of the buffer b at offset off
LE16(b, off) == b[off + 1] + 256 * b[off + 2]
LE32(b, off) == <<LE16(b, off + 2), LE16(b, off)>>
SignedLE32(b, off) ==
    IF LE16(b, off + 2) >= 32768
    THEN (LE16(b, off + 2) - 65536) * 65536 + LE16(b, off)
    ELSE LE16(b, off + 2) * 65536 + LE16(b, off)
LE64(b, off) ==
    <<LE16(b, off + 6), LE16(b, off + 4), LE16(b, off + 2), LE16(b, off)>>

\* a shape header was decoded from the buffer ShapeBuffer
ShapeDecoded == last.op = "JSShape.from_memory" /\ last.result # PyNone
ShapeBuffer == last.args[2].data.b

ObjectHeaderIs(r, b) ==
    /\ r.class_id = LE16(b, 0)
    /\ r.flags = b[3]
    /\ r.weakref_count = LE32(b, 4)
    /\ r.shape = LE64(b, 8)
    /\ r.prop = LE64(b, 16)

\* C13: for every 24-byte buffer the object decoders read the class id as 2
\* little-endian bytes at offset 0, the flags byte at offset 2, the weak-ref
\* count at offset 4, the shape reference at offset 8 and the property-table
\* reference at offset 16, and the decoder of the stand-alone shape
\* investigator decodes the same fields to the same values.
C13_ObjectDecodersAgree ==
    /\ (last.op = "JSObject.from_memory" /\ last.result # PyNone)
         => ObjectHeaderIs(last.result, last.args[2].data.b)
    /\ (last.op = "read_object" /\ last.result # PyNone)
         => ObjectHeaderIs(last.result, last.args[2].data.b)
    /\ (last.op = "_analyze_object" /\ ~ShortRead(last.args[2], 24))
         => /\ last.result # BufferError
            /\ ObjectHeaderIs(last.result, last.args[2].data.b)

\* the part of C13 that holds: the decoders of types.py and of
\* lldb_comprehensive_debug.py read the documented layout
C13_LibraryDecodersAgree ==
    /\ (last.op = "JSObject.from_memory" /\ last.result # PyNone)
         => ObjectHeaderIs(last.result, last.args[2].data.b)
    /\ (last.op = "read_object" /\ last.result # PyNone)
         => ObjectHeaderIs(last.result, last.args[2].data.b)

\* _analyze_object given a full header of 24 bytes
C13_FullHeaderAnalyzed ==
    /\ last.op = "_analyze_object"
    /\ ~ShortRead(last.args[2], 24)
    /\ last.result = BufferError
RECURSIVE Pow2(_)
Pow2(n) == IF n = 0 THEN 1 ELSE 2 * Pow2(n - 1)

\* 2^n - 1 as an unsigned 32-bit value <<hi, lo>>, for n in 0..32
Pow2Minus1(n) ==
    IF n <= 16 THEN <<0, Pow2(n) - 1>> ELSE <<Pow2(n - 16) - 1, 65535>>

\* C14: JSShape.is_valid() is true exactly when the slot count and the used
\* count are non-negative, the used count does not exceed the slot count,
\* and the hash mask is 0 or of the form 2^n - 1.
C14_ShapeValidIff ==
    last.op = "JSShape.is_valid" =>
        (last.result <=>
            /\ last.args[1].prop_size >= 0
            /\ last.args[1].prop_count >= 0
            /\ last.args[1].prop_count <= last.args[1].prop_size
            /\ \E n \in 0..32 : last.args[1].prop_hash_mask = Pow2Minus1(n))

\* a valid shape whose mask is 2^32 - 1, and an invalid one rejected for its
\* mask alone
C14_Witness ==
    /\ last.op = "JSShape.is_valid"
    /\ last.args[1].prop_hash_mask = <<65535, 65535>>
    /\ last.result

C14_WitnessMaskRejected ==
    /\ last.op = "JSShape.is_valid"
    /\ last.args[1].prop_hash_mask = <<0, 6>>
    /\ last.args[1].prop_count = 1
    /\ last.args[1].prop_size = 2
    /\ ~last.result
\* v is an integer that is non-zero, at least 0x1000, at most
\* 0x0000FFFFFFFFFFFF and 8-byte aligned
PlausibleAlignedPointer(v) ==
    /\ v # <<>>
    /\ v[1] = 0
    /\ v[2] > 0 \/ v[3] > 0 \/ v[4] >= 4096
    /\ v[4] % 8 = 0

\* C19: constants.is_valid_pointer, lldb_root_cause.is_valid_obj_addr and
\* lldb_deep_shape_debug.is_valid_pointer are each true exactly when the
\* value is not None, non-zero, at least 0x1000, at most 0x0000FFFFFFFFFFFF
\* and 8-byte aligned, so they agree on every input.
C19_PredicatesAgree ==
    last.op \in {"is_valid_pointer", "is_valid_obj_addr",
                 "deep_shape.is_valid_pointer"} =>
        /\ last.result <=> PlausibleAlignedPointer(last.args[1])
        /\ last.result = is_valid_pointer(last.args[1])
        /\ last.result = is_valid_obj_addr(last.args[1])
        /\ last.result = deep_shape_is_valid_pointer(last.args[1])

\* the largest valid pointer accepted, and None refused
C19_Witness ==
    /\ last.op = "is_valid_obj_addr"
    /\ last.args[1] = U64(0, 65535, 65535, 65528)
    /\ last.result

C19_WitnessNone ==
    /\ last.op = "deep_shape.is_valid_pointer"
    /\ last.args[1] = <<>>
    /\ ~last.result
----------------------------------------------------------------------------
(* Properties of the memory reader *)

IsRead == last.op = "read"

\* C16: every read(addr, size) returns either None or exactly size bytes
\* holding the bytes of the range [addr, addr + size); a short or failed
\* read is never returned as valid data.
C16_ReadIsNoneOrExact ==
    IsRead =>
        \/ last.result = PyNone
        \/ last.result.b = TargetBytes(last.args[1], last.args[2])

\* a read answered from the cache (the read of the process fails) with fewer
\* bytes than were asked for
C16_ShortFromCache ==
    /\ IsRead
    /\ ~last.args[4].success
    /\ last.result # PyNone
    /\ Len(last.result.b) < last.args[2]

\* a read answered from the cache with bytes that are not those of the range
C16_WrongBytesFromCache ==
    /\ IsRead
    /\ ~last.args[4].success
    /\ last.result # PyNone
    /\ \E i \in 1..Len(last.result.b) :
           last.result.b[i] # TargetBytes(last.args[1], last.args[2])[i]
----------------------------------------------------------------------------
(* Properties of the object tracker *)

\* the step is the callback op for the address a
CallbackFor(op, a) == last'.op = op /\ last'.args[1] = a

\* the header the callback read decodes to an object
HeaderDecodes(outcome) == ~ShortRead(outcome, 24)

\* C17 as stated: after any sequence of object-create, property-add and
\* object-free callbacks for a tracked address the history holds one event
\* per callback, in callback order, including a 'freed' event: every such
\* callback appends one event to the history of its address.
C17_OneEventPerCallback ==
    [][ \A a \in DOMAIN objects :
          ( \/ CallbackFor("_on_object_create", a)
            \/ CallbackFor("_on_shape_change", a)
            \/ CallbackFor("_on_object_free", a) )
          => /\ Len(objects'[a].events) = Len(objects[a].events) + 1
             /\ SubSeq(objects'[a].events, 1, Len(objects[a].events))
                    = objects[a].events
             /\ CallbackFor("_on_object_free", a) =>
                    objects'[a].events[Len(objects'[a].events)].type
                        \in { "free", "freed" }
      ]_vars

\* C17: the tracker keeps, per tracked address, a list of events in callback
\* order.  A create callback whose header decodes with a valid class id
\* starts a new history (also for an address already tracked) holding one
\* 'create' event with the shape read; a property-add callback for a tracked
\* address appends one 'shape_change' event with the shape read, unless the
\* header cannot be read; an object-free callback appends no event: it sets
\* freed and freed_time.  get_object_history returns that history.
C17_EventsOfCallbacks ==
    [][ \A a \in DOMAIN objects' :
          LET new == objects'[a].events
              old == IF a \in DOMAIN objects THEN objects[a].events
                     ELSE <<>>
              outcome == last'.args[2]
          IN  /\ CallbackFor("_on_object_create", a) =>
                   IF ~HeaderDecodes(outcome)
                          \/ LE16(outcome.data.b, 0) \notin 1..255
                   THEN new = old
                   ELSE /\ Len(new) = 1
                        /\ new[1].type = "create"
                        /\ new[1].shape = LE64(outcome.data.b, 8)
                        /\ objects'[a].alloc_shape = new[1].shape
                        /\ ~objects'[a].freed
              /\ CallbackFor("_on_shape_change", a) =>
                   IF ~HeaderDecodes(outcome) THEN new = old
                   ELSE /\ Len(new) = Len(old) + 1
                        /\ SubSeq(new, 1, Len(old)) = old
                        /\ new[Len(new)].type = "shape_change"
                        /\ new[Len(new)].shape = LE64(outcome.data.b, 8)
              /\ CallbackFor("_on_object_free", a) =>
                   /\ new = old
                   /\ objects'[a].freed
                   /\ objects'[a].freed_time # NoTime
              /\ CallbackFor("get_object_history", a) =>
                   /\ new = old
                   /\ last'.result = objects[a]
              /\ last'.args[1] # a => new = old
      ]_vars

\* a history with a create and a shape_change event, just marked freed
C17_Witness ==
    /\ last.op = "_on_object_free"
    /\ last.args[1] \in DOMAIN objects
    /\ objects[last.args[1]].freed
    /\ Len(objects[last.args[1]].events) >= 2
    /\ objects[last.args[1]].events[1].type = "create"
    /\ objects[last.args[1]].events[2].type = "shape_change"
----------------------------------------------------------------------------
(* Properties of the session *)

\* the check at JS_SetPropertyInternal decoded an object with a valid class
\* id whose shape field the tracker has seen freed
CheckedFreedShape ==
    /\ last.op = "_check_at_set_property_internal"
    /\ ~U64Lt(last.args[1], U64(0, 0, 0, 4096))
    /\ ~ShortRead(last.args[2], 24)
    /\ LE16(last.args[2].data.b, 0) \in 1..255
    /\ LE64(last.args[2].data.b, 8) \in tracker_freed_shapes

\* C20: once the shape tracker has seen the shape at A freed, every later
\* corruption check of an object whose shape field is A reports a
\* freed-shape corruption: the freed set the classifier consults contains
\* every address the tracker saw freed.
C20_TrackedFreeIsReported ==
    /\ tracker_freed_shapes \subseteq freed_shapes
    /\ CheckedFreedShape =>
         /\ last.result = stop_on_event
         /\ corruption_state.last_corruption # PyNone
         /\ corruption_state.last_corruption.type = "FREED_SHAPE"

\* a use of a freed shape that the corruption module lets pass
C20_MissedUseAfterFree ==
    /\ CheckedFreedShape
    /\ last.result = FALSE
    /\ corruption_state.last_corruption = PyNone

(***************************************************************************)
(* Properties of the watchpoint manager                                    *)
(***************************************************************************)

WatchpointLimit ==
    /\ Cardinality(DOMAIN watchpoints) <= MAX_WATCHPOINTS
    /\ DOMAIN handlers \subseteq DOMAIN watchpoints

\* an add made at the limit, or one the debugger refused
RefusedAdd ==
    /\ last'.op = "WatchpointManager.add"
    /\ \/ Cardinality(DOMAIN watchpoints) >= MAX_WATCHPOINTS
       \/ ~last'.args[2]

AddEffect ==
    /\ RefusedAdd =>
          /\ last'.result = PyNone
          /\ watchpoints' = watchpoints
          /\ handlers' = handlers
    /\ (last'.op = "WatchpointManager.add" /\ last'.result = PyNone) =>
          /\ watchpoints' = watchpoints
          /\ handlers' = handlers

\* C24: the number of registered watchpoints never exceeds MAX_WATCHPOINTS
\* and every key of the handler map is the id of a registered watchpoint;
\* an add made at the limit or refused by the debugger returns None, and an
\* add that returns None leaves both maps as they were.
C24_WatchpointsWithinLimit ==
    /\ []WatchpointLimit
    /\ [][AddEffect]_vars

C24_Witness ==
    /\ last.op = "WatchpointManager.add"
    /\ last.args[2]
    /\ last.result = PyNone
    /\ Cardinality(DOMAIN watchpoints) = MAX_WATCHPOINTS
    /\ handlers # <<>>

C24_WitnessRemoved ==
    /\ last.op = "WatchpointManager.remove"
    /\ last.args[1] \notin DOMAIN watchpoints
    /\ Cardinality(DOMAIN watchpoints) = MAX_WATCHPOINTS - 1
    /\ watch_count = 1


(***************************************************************************)
(* Properties of the breakpoint manager                                    *)
(***************************************************************************)

\* C25: remove(name) of a name that was registered completes without an
\* error and leaves name in none of the breakpoint, handler and config maps.
C25_RemoveCompletes ==
    (last.op = "BreakpointManager.remove" /\ last.args[2]) =>
        /\ last.result = PyNone
        /\ last.args[1] \notin DOMAIN breakpoints
        /\ last.args[1] \notin DOMAIN bp_handlers
        /\ last.args[1] \notin DOMAIN bp_configs

\* a remove that raised and left the configuration of the name behind
C25_RemoveRaised ==
    /\ last.op = "BreakpointManager.remove"
    /\ last.result = KeyError
    /\ last.args[1] \notin DOMAIN breakpoints
    /\ last.args[1] \in DOMAIN bp_configs

\* The part that holds: a name that add registered with an on_hit callback
\* is removed from the three maps without an error.
C25_RemoveWithCallback ==
    [][(last'.op = "BreakpointManager.remove"
          /\ last'.args[1] \in DOMAIN breakpoints
          /\ last'.args[1] \in DOMAIN bp_handlers
          /\ last'.args[1] \in DOMAIN bp_configs) =>
         /\ last'.result = PyNone
         /\ last'.args[1] \notin DOMAIN breakpoints'
         /\ last'.args[1] \notin DOMAIN bp_handlers'
         /\ last'.args[1] \notin DOMAIN bp_configs']_vars


(***************************************************************************)
(* Properties of the shape tracker                                         *)
(***************************************************************************)

\* C26: no address is at once a key of the live shapes map and reported
\* freed by is_shape_freed of the shape-tracking module.
C26_LiveShapeNotFreed ==
    \A a \in DOMAIN shapes :
        ~ShapeTrackingModule_is_shape_freed(tracker_freed_shapes, a)

\* a live shape that the tracker reports as freed
C26_LiveAndFreed ==
    /\ last.op = "ShapeTrackingModule.is_shape_freed"
    /\ last.result = TRUE
    /\ last.args[1] \in DOMAIN shapes


(***************************************************************************)
(* Properties of the free-tracking callback                                *)
(***************************************************************************)

\* C27: on_free_breakpoint returns True (reports and stops) when the block
\* was already freed and has not been allocated since, and returns False
\* when the block is allocated.
C27_DoubleFreeReported ==
    last.op = "on_free_breakpoint" => (last.result <=> last.args[2])

\* a second free of a block that the callback let pass
C27_DoubleFreeMissed ==
    /\ last.op = "on_free_breakpoint"
    /\ last.args[2]
    /\ last.result = FALSE
    /\ "allocations" \in DOMAIN dict

\* The part that holds: a free of an allocated block is not reported.
C27_FreeOfAllocatedPasses ==
    (last.op = "on_free_breakpoint" /\ ~last.args[2]) => last.result = FALSE


(***************************************************************************)
(* Properties of the memory cache                                          *)
(***************************************************************************)

\* the addresses of the chunks in a cache
Keys(c) == { c[i].addr : i \in 1..Len(c) }

\* the addresses of the chunks that a range of n bytes at addr covers
ChunksOf(addr, n) ==
    { U64AddSmall(addr, k * ChunkSize) : k \in 0..(ChunkCount(n) - 1) }

\* the chunks in the cache that the last call used: those a hit of get
\* read, or those put stored
RecentlyUsed ==
    IF last.op = "MemoryCache.get" /\ last.result # PyNone
    THEN ChunksOf(last.args[1], last.args[2]) \cap Keys(cache)
    ELSE IF last.op = "MemoryCache.put"
    THEN ChunksOf(last.args[1], Len(last.args[2])) \cap Keys(cache)
    ELSE {}

\* a put that evicts a chunk the call before it used evicts every chunk
\* that call did not use, save those the put itself stores
EvictsOldestUse ==
    last'.op = "MemoryCache.put" =>
        LET stored == ChunksOf(last'.args[1], Len(last'.args[2]))
        IN  \A r \in RecentlyUsed \ stored :
                r \notin Keys(cache') =>
                    \A o \in (Keys(cache) \ RecentlyUsed) \ stored :
                        o \notin Keys(cache')

\* C28: the chunks a put evicts are the least recently used ones, a hit of
\* get and a put both counting as a use: the chunks used by the call
\* before a put leave the cache only after every chunk used earlier.
C28_EvictsLeastRecentlyUsed == [][EvictsOldestUse]_vars

RECURSIVE SumLen(_)
SumLen(c) == IF c = <<>> THEN 0 ELSE Len(Head(c).data) + SumLen(Tail(c))

\* C29: current_size is the sum of the lengths of the chunks in the cache
\* and is at most max_size.
C29_SizeIsSumWithinMax ==
    /\ current_size = SumLen(cache)
    /\ current_size <= CacheSize

C29_Witness ==
    /\ last.op = "MemoryCache.put"
    /\ Len(last.args[2]) > CacheSize
    /\ Len(cache) = 2
    /\ current_size = CacheSize

C29_WitnessInvalidated ==
    /\ last.op = "MemoryCache.invalidate"
    /\ last.args[1] # NoneArg
    /\ Len(cache) = 1
    /\ current_size = 8


(***************************************************************************)
(* Properties of the root-cause tracker                                    *)
(***************************************************************************)

\* every event after the first starts from the shape the event before it
\* ended with
UnbrokenLineage ==
    \A a \in DOMAIN tracked_objects :
        LET h == tracked_objects[a].history
        IN  \A i \in 2..Len(h) : h[i].old_shape = h[i - 1].new_shape

\* the same, for the events that follow a write whose new value was read
LineageAfterReadWrites ==
    \A a \in DOMAIN tracked_objects :
        LET h == tracked_objects[a].history
        IN  \A i \in 2..Len(h) :
                h[i - 1].new_shape # NoneArg =>
                    h[i].old_shape = h[i - 1].new_shape

\* the object tracked at a is the same object before and after the step
SameTracked(a) ==
    /\ a \in DOMAIN tracked_objects
    /\ a \in DOMAIN tracked_objects'
    /\ tracked_objects'[a].name = tracked_objects[a].name

\* an object starts with no event and the shape read at its creation, keeps
\* that shape until its first event, whose old_shape is that shape; and a
\* corrupted object stays corrupted
TrackedStep ==
    \A a \in DOMAIN tracked_objects' :
        /\ ~SameTracked(a) =>
              /\ last'.op = "on_new_object"
              /\ tracked_objects'[a].history = <<>>
              /\ ~tracked_objects'[a].corrupted
              /\ tracked_objects'[a].shape_addr = read_u64(last'.args[2])
        /\ SameTracked(a) =>
              /\ (tracked_objects[a].history = <<>>
                     /\ tracked_objects'[a].history = <<>>) =>
                    tracked_objects'[a].shape_addr =
                        tracked_objects[a].shape_addr
              /\ (tracked_objects[a].history = <<>>
                     /\ tracked_objects'[a].history # <<>>) =>
                    tracked_objects'[a].history[1].old_shape =
                        tracked_objects[a].shape_addr
              /\ tracked_objects[a].corrupted =>
                    tracked_objects'[a].corrupted

\* C30: in the history of every tracked object the first event's old_shape
\* is the shape recorded at creation and every later event's old_shape is
\* the new_shape of the event before it, whatever the writes were classified
\* as; an object marked corrupted stays marked corrupted.
C30_UnbrokenShapeLineage ==
    /\ []UnbrokenLineage
    /\ [][TrackedStep]_vars

\* a history whose second event does not start from where the first ended
C30_BrokenLineage ==
    \E a \in DOMAIN tracked_objects :
        LET h == tracked_objects[a].history
        IN  /\ Len(h) >= 2
            /\ h[1].new_shape = NoneArg
            /\ h[2].old_shape # h[1].new_shape
            /\ last.op = "on_shape_write"

\* The part that holds: the lineage is unbroken after every write whose new
\* value could be read, corruption or not, with the first event starting
\* from the shape at creation and the corrupted mark kept.
C30_LineageOfReadWrites ==
    /\ []LineageAfterReadWrites
    /\ [][TrackedStep]_vars

====
